---- MODULE Spec2Model ----
(***************************************************************************)
(* State-machine model of the pre-push hook of wherestheJIRAticket:        *)
(* loadConfig, executeAnalysisPipeline (analyzeGitChanges, analyzeWithAI,  *)
(* createIssue, createStoryBranch) and the two result handlers.            *)
(*                                                                         *)
(* Strings are TLA+ strings; TLC evaluates Len, \o and SubSeq on them, so  *)
(* includes, substring, regular-expression tests and the branch-name       *)
(* sanitizer are computed character by character as the code does.         *)
(*                                                                         *)
(* git.ts is modelled from src/unnamed/part_003 (the version with          *)
(* pushBranch / deleteRemoteBranch and the string-or-number story id);     *)
(* src/unnamed/part_002 is an older copy of the same file.                 *)
(***************************************************************************)
EXTENDS Integers, Sequences, FiniteSets, TLC

(***************************************************************************)
(* Bounds of the model                                                     *)
(***************************************************************************)
\* number of pushes (runs of the hook) a behaviour may contain
MaxRuns == 2
\* length up to which every name over NameAlphabet is given to the sanitizer
MaxNameLen == 4

(***************************************************************************)
(* String primitives                                                       *)
(***************************************************************************)
Char(s, i) == SubSeq(s, i, i)

Min(a, b) == IF a <= b THEN a ELSE b
Max(a, b) == IF a >= b THEN a ELSE b

\* String.prototype.substring(from, to) with 0-based from, exclusive to
substring(s, from, to) == SubSeq(s, Min(from, Len(s)) + 1, Min(to, Len(s)))

\* String.prototype.includes
includes(s, needle) ==
  \E i \in 1..(Len(s) - Len(needle) + 1) : SubSeq(s, i, i + Len(needle) - 1) = needle

\* String.prototype.startsWith
startsWith(s, prefix) == Len(s) >= Len(prefix) /\ SubSeq(s, 1, Len(prefix)) = prefix

UpperLetters == "ABCDEFGHIJKLMNOPQRSTUVWXYZ"
LowerLetters == "abcdefghijklmnopqrstuvwxyz"
Digits == "0123456789"

IsUpper(c) == \E i \in 1..26 : Char(UpperLetters, i) = c
IsLower(c) == \E i \in 1..26 : Char(LowerLetters, i) = c
IsDigit(c) == \E i \in 1..10 : Char(Digits, i) = c

LowerChar(c) ==
  IF IsUpper(c)
  THEN Char(LowerLetters, CHOOSE i \in 1..26 : Char(UpperLetters, i) = c)
  ELSE c

\* the characters lo..hi of s in lower case (computed by halves, which
\* keeps the evaluation shallow on long strings)
RECURSIVE MapChars(_, _, _)
MapChars(s, lo, hi) ==
  IF lo > hi THEN ""
  ELSE IF lo = hi THEN LowerChar(Char(s, lo))
  ELSE LET mid == (lo + hi) \div 2
       IN MapChars(s, lo, mid) \o MapChars(s, mid + 1, hi)

\* String.prototype.toLowerCase
toLowerCase(s) == MapChars(s, 1, Len(s))

\* String.prototype.trim (the only white space of the model's alphabet is " ")
RECURSIVE trim(_)
trim(s) ==
  IF Len(s) > 0 /\ Char(s, 1) = " " THEN trim(SubSeq(s, 2, Len(s)))
  ELSE IF Len(s) > 0 /\ Char(s, Len(s)) = " " THEN trim(SubSeq(s, 1, Len(s) - 1))
  ELSE s

\* decimal rendering of a non-negative integer, as a template literal does
RECURSIVE NumToStr(_)
NumToStr(n) ==
  IF n < 10 THEN Char(Digits, n + 1)
  ELSE NumToStr(n \div 10) \o Char(Digits, (n % 10) + 1)

DigitVal(c) == (CHOOSE i \in 1..10 : Char(Digits, i) = c) - 1

(***************************************************************************)
(* JavaScript values needed for the issue id: a number (possibly NaN) or a *)
(* string                                                                  *)
(***************************************************************************)
JsNum(n) == [type |-> "number", nan |-> FALSE, n |-> n, s |-> ""]
JsNaN == [type |-> "number", nan |-> TRUE, n |-> 0, s |-> ""]
JsStr(s) == [type |-> "string", nan |-> FALSE, n |-> 0, s |-> s]

\* `${v}` for a number or a string
JsToString(v) ==
  IF v.type = "string" THEN v.s
  ELSE IF v.nan THEN "NaN" ELSE NumToStr(v.n)

\* value of the longest prefix of decimal digits of s, scanning from i
RECURSIVE DigitsPrefix(_, _, _)
DigitsPrefix(s, i, acc) ==
  IF i <= Len(s) /\ IsDigit(Char(s, i))
  THEN DigitsPrefix(s, i + 1, acc * 10 + DigitVal(Char(s, i)))
  ELSE acc

\* parseInt(s, 10) on unsigned input: leading white space is skipped, the
\* leading digits are read, NaN when there is none
parseInt(s) ==
  LET t == trim(s) IN
  IF Len(t) > 0 /\ IsDigit(Char(t, 1)) THEN JsNum(DigitsPrefix(t, 1, 0)) ELSE JsNaN

(***************************************************************************)
(* utils.ts                                                                *)
(***************************************************************************)
success(data) == [success |-> TRUE, data |-> data]
failure(error) == [success |-> FALSE, error |-> error]

\* .replace(/[^a-z0-9-]/g, '-') on the characters lo..hi of s
RECURSIVE ReplaceInvalid(_, _, _)
ReplaceInvalid(s, lo, hi) ==
  IF lo > hi THEN ""
  ELSE IF lo = hi
  THEN LET c == Char(s, lo) IN IF IsLower(c) \/ IsDigit(c) \/ c = "-" THEN c ELSE "-"
  ELSE LET mid == (lo + hi) \div 2
       IN ReplaceInvalid(s, lo, mid) \o ReplaceInvalid(s, mid + 1, hi)

\* .replace(/-+/g, '-') on the characters lo..hi of s: a hyphen that
\* follows a hyphen is dropped
RECURSIVE CollapseHyphens(_, _, _)
CollapseHyphens(s, lo, hi) ==
  IF lo > hi THEN ""
  ELSE IF lo = hi
  THEN IF Char(s, lo) = "-" /\ lo > 1 /\ Char(s, lo - 1) = "-" THEN "" ELSE Char(s, lo)
  ELSE LET mid == (lo + hi) \div 2
       IN CollapseHyphens(s, lo, mid) \o CollapseHyphens(s, mid + 1, hi)

\* .replace(/^-|-$/g, ''): one hyphen at the start and one at the end
TrimHyphens(s) ==
  LET a == IF Len(s) > 0 /\ Char(s, 1) = "-" THEN SubSeq(s, 2, Len(s)) ELSE s
  IN IF Len(a) > 0 /\ Char(a, Len(a)) = "-" THEN SubSeq(a, 1, Len(a) - 1) ELSE a

\* mutant: the sanitizer without the step that collapses runs of hyphens
sanitizeBranchNameNoCollapse(name) ==
  LET lower == toLowerCase(name)
  IN TrimHyphens(ReplaceInvalid(lower, 1, Len(lower)))

sanitizeBranchName(name) ==
  LET lower == toLowerCase(name)
      replaced == ReplaceInvalid(lower, 1, Len(lower))
      collapsed == CollapseHyphens(replaced, 1, Len(replaced))
  IN TrimHyphens(collapsed)

truncate(text, maxLength) ==
  IF Len(text) <= maxLength THEN text ELSE substring(text, 0, maxLength - 3) \o "..."

(***************************************************************************)
(* git.ts: eligibility                                                     *)
(***************************************************************************)
\* /^sc-\d+/.test(branch)
MatchesShortcutPrefix(branch) ==
  startsWith(branch, "sc-") /\ Len(branch) >= 4 /\ IsDigit(Char(branch, 4))

\* /^[A-Z]+-\d+/.test(branch)
MatchesJiraKeyPrefix(branch) ==
  \E k \in 1..(Len(branch) - 2) :
    /\ \A i \in 1..k : IsUpper(Char(branch, i))
    /\ Char(branch, k + 1) = "-"
    /\ IsDigit(Char(branch, k + 2))

SeqContains(seq, x) == \E i \in 1..Len(seq) : seq[i] = x

\* mutant: the eligibility check without the tracker-key pattern
shouldSkipBranchNoJiraKey(branch, skipBranches) ==
  IF MatchesShortcutPrefix(branch) THEN TRUE
  ELSE IF SeqContains(skipBranches, branch) THEN TRUE
  ELSE FALSE

\* mutant: the eligibility check that only consults the skip list
shouldSkipBranchSkipListOnly(branch, skipBranches) ==
  SeqContains(skipBranches, branch)

\* mutant: the Shortcut pattern without its digit (/^sc-/)
shouldSkipBranchLoosePrefix(branch, skipBranches) ==
  IF startsWith(branch, "sc-") THEN TRUE
  ELSE IF MatchesJiraKeyPrefix(branch) THEN TRUE
  ELSE IF SeqContains(skipBranches, branch) THEN TRUE
  ELSE FALSE

shouldSkipBranch(branch, skipBranches) ==
  IF MatchesShortcutPrefix(branch) THEN TRUE
  ELSE IF MatchesJiraKeyPrefix(branch) THEN TRUE
  ELSE IF SeqContains(skipBranches, branch) THEN TRUE
  ELSE FALSE

(***************************************************************************)
(* Values shared by the components                                         *)
(***************************************************************************)
\* an optional value that is not there (undefined object field)
Absent == [absent |-> TRUE]
\* a result slot no stage has filled yet
None == [none |-> TRUE]
\* an undefined string field of parsed JSON
undefined == "<undefined>"

\* an Error: its message, and (history only, never read by the program)
\* the place that produced it
Err(message, origin) == [message |-> message, origin |-> origin]

\* an exception propagating out of a function
Thrown(message) == [thrown |-> TRUE, message |-> message]
IsThrown(r) == "thrown" \in DOMAIN r
IsOk(r) == ~IsThrown(r) /\ r.success

\* a function handed to a combinator: map is what it returns for each
\* payload, throws the payloads on which it throws instead (a rejected
\* promise, for the function handed to mapAsyncResult)
Call(fn, data) ==
  IF data \in fn.throws THEN Thrown("fn failed") ELSE fn.map[data]

\* mutant: the function is invoked before the result is looked at
mapResultEager(result, fn) ==
  LET data == IF result.success THEN result.data ELSE 0 IN
  IF data \in fn.throws THEN Call(fn, data)
  ELSE IF result.success THEN success(Call(fn, data)) ELSE result

\* utils.ts mapResult; an exception of fn propagates
mapResult(result, fn) ==
  IF result.success
  THEN IF result.data \in fn.throws THEN Call(fn, result.data)
       ELSE success(Call(fn, result.data))
  ELSE result

\* utils.ts flatMapResult
flatMapResult(result, fn) ==
  IF result.success THEN Call(fn, result.data) ELSE result

\* utils.ts asyncSuccess, by the value its promise is fulfilled with
asyncSuccess(data) == success(data)

\* utils.ts mapAsyncResult, by how its promise settles: promise is the
\* AsyncResult it is given, [rejected, value] with value the Result or the
\* reason of the rejection; a rejection of the promise or
\* of fn's promise rejects the result
mapAsyncResult(promise, fn) ==
  IF promise.rejected THEN Thrown(promise.value.message)
  ELSE LET resolved == promise.value IN
       IF resolved.success
       THEN IF resolved.data \in fn.throws THEN Call(fn, resolved.data)
            ELSE asyncSuccess(Call(fn, resolved.data))
       ELSE resolved

TypeErrorTrim == "TypeError: Cannot read properties of undefined (reading 'trim')"

\* utils.ts validateNonEmpty; value.trim() throws on an undefined value
validateNonEmpty(value, fieldName) ==
  IF value = undefined THEN Thrown(TypeErrorTrim)
  ELSE IF Len(trim(value)) > 0 THEN success(trim(value))
  ELSE failure(Err(fieldName \o " cannot be empty", "validation"))

(***************************************************************************)
(* config.ts                                                               *)
(***************************************************************************)
DefaultSkipBranches == <<"main", "master", "develop", "staging">>

validateConfig(data) ==
  LET trackerResult == validateNonEmpty(data.tracker, "tracker")
      openaiResult == validateNonEmpty(data.openaiToken, "openaiToken")
      baseBranchResult ==
        validateNonEmpty(IF data.baseBranch \in {undefined, ""} THEN "main" ELSE data.baseBranch,
                         "baseBranch")
      tokenResult == validateNonEmpty(data.shortcutToken, "shortcutToken")
      baseUrlResult == validateNonEmpty(data.jiraBaseUrl, "jiraBaseUrl")
      emailResult == validateNonEmpty(data.jiraEmail, "jiraEmail")
      apiTokenResult == validateNonEmpty(data.jiraApiToken, "jiraApiToken")
      projectKeyResult == validateNonEmpty(data.jiraProjectKey, "jiraProjectKey")
      config(shortcut, jira) ==
        [tracker |-> trackerResult.data,
         openai |-> [token |-> openaiResult.data,
                     model |-> IF data.openaiModel \in {undefined, ""}
                               THEN "gpt-4.1" ELSE data.openaiModel],
         git |-> [baseBranch |-> baseBranchResult.data,
                  skipBranches |-> IF data.skipIsArray THEN data.skipBranches
                                   ELSE DefaultSkipBranches],
         shortcut |-> shortcut,
         jira |-> jira]
  IN
  IF ~IsOk(trackerResult) THEN trackerResult
  ELSE IF ~IsOk(openaiResult) THEN openaiResult
  ELSE IF ~IsOk(baseBranchResult) THEN baseBranchResult
  ELSE IF data.tracker = "shortcut" THEN
    IF ~IsOk(tokenResult) THEN tokenResult
    ELSE success(config([token |-> tokenResult.data], Absent))
  ELSE IF data.tracker = "jira" THEN
    IF ~IsOk(baseUrlResult) THEN baseUrlResult
    ELSE IF ~IsOk(emailResult) THEN emailResult
    ELSE IF ~IsOk(apiTokenResult) THEN apiTokenResult
    ELSE IF ~IsOk(projectKeyResult) THEN projectKeyResult
    ELSE success(config(Absent,
                        [baseUrl |-> baseUrlResult.data,
                         email |-> emailResult.data,
                         apiToken |-> apiTokenResult.data,
                         projectKey |-> projectKeyResult.data,
                         sprintId |-> data.jiraSprintId]))
  ELSE success(config(Absent, Absent))

ConfigFileName == "/.wtj-config.json"

\* file: [cwd, exists, json, data]; json is whether JSON.parse accepts the text
loadConfig(file) ==
  IF ~file.exists
  THEN failure(Err("Config file not found: " \o file.cwd \o ConfigFileName
                   \o "\nRun 'wtj' first to set up", "config"))
  ELSE IF ~file.json
  THEN failure(Err("Invalid config file: SyntaxError: Unexpected end of JSON input", "config"))
  ELSE LET validationResult == validateConfig(file.data) IN
       IF IsThrown(validationResult)
       THEN failure(Err("Invalid config file: " \o validationResult.message, "config"))
       ELSE IF validationResult.success THEN success(validationResult.data)
       ELSE validationResult

(***************************************************************************)
(* Inputs: what the file system may hold                                   *)
(***************************************************************************)
\* jiraSprintId 0 stands for a sprint id that is not configured (falsy)
ShortcutData ==
  [tracker |-> "shortcut", openaiToken |-> "sk-test", openaiModel |-> undefined,
   baseBranch |-> undefined, skipIsArray |-> FALSE, skipBranches |-> <<>>,
   shortcutToken |-> "shortcut-token",
   jiraBaseUrl |-> undefined, jiraEmail |-> undefined, jiraApiToken |-> undefined,
   jiraProjectKey |-> undefined, jiraSprintId |-> 0]

JiraData ==
  [ShortcutData EXCEPT !.tracker = "jira", !.shortcutToken = undefined,
                       !.jiraBaseUrl = "https://acme.atlassian.net",
                       !.jiraEmail = "dev@acme.io", !.jiraApiToken = "jira-token",
                       !.jiraProjectKey = "PROJ"]

ConfigData ==
  { ShortcutData,
    [ShortcutData EXCEPT !.skipIsArray = TRUE, !.skipBranches = <<"main", "HEAD">>],
    [ShortcutData EXCEPT !.shortcutToken = undefined],
    [ShortcutData EXCEPT !.shortcutToken = "  "],
    [ShortcutData EXCEPT !.tracker = "linear"],
    [ShortcutData EXCEPT !.tracker = "shortcut "],
    [ShortcutData EXCEPT !.tracker = "shortcut ", !.shortcutToken = undefined],
    [JiraData EXCEPT !.tracker = " jira"],
    JiraData,
    [JiraData EXCEPT !.jiraSprintId = 12],
    [JiraData EXCEPT !.jiraProjectKey = ""] }

WorkDir == "/home/dev/repo"

ConfigFiles ==
  { [cwd |-> WorkDir, exists |-> FALSE, json |-> FALSE, data |-> ShortcutData],
    [cwd |-> WorkDir, exists |-> TRUE, json |-> FALSE, data |-> ShortcutData] }
  \cup { [cwd |-> WorkDir, exists |-> TRUE, json |-> TRUE, data |-> d] : d \in ConfigData }

(***************************************************************************)
(* git.ts: normalisation of the repository's answers                       *)
(***************************************************************************)
HashLength == 7
DiffLimit == 8000

\* mutant: the commit hash is kept in full
parseCommitFullHash(commit) ==
  [hash |-> commit.hash,
   message |-> commit.message,
   author |-> commit.author_name,
   date |-> commit.date]

parseCommit(commit) ==
  [hash |-> substring(commit.hash, 0, HashLength),
   message |-> commit.message,
   author |-> commit.author_name,
   date |-> commit.date]

parseCommits(logResult) == [i \in 1..Len(logResult) |-> parseCommit(logResult[i])]

parseFileChange(file) ==
  [path |-> file.file,
   additions |-> file.insertions,
   deletions |-> file.deletions,
   status |-> IF file.binary THEN "modified" ELSE "modified"]

parseFileChanges(diffSummary) == [i \in 1..Len(diffSummary) |-> parseFileChange(diffSummary[i])]

RECURSIVE SumAdditions(_, _)
SumAdditions(fileChanges, i) ==
  IF i > Len(fileChanges) THEN 0 ELSE fileChanges[i].additions + SumAdditions(fileChanges, i + 1)

RECURSIVE SumDeletions(_, _)
SumDeletions(fileChanges, i) ==
  IF i > Len(fileChanges) THEN 0 ELSE fileChanges[i].deletions + SumDeletions(fileChanges, i + 1)

calculateTotals(fileChanges) ==
  [totalAdditions |-> SumAdditions(fileChanges, 1),
   totalDeletions |-> SumDeletions(fileChanges, 1)]

\* mutant: analyzeGitChanges without the empty-commit check
buildGitAnalysisUnchecked(currentBranch, logResult, diffResult, diffSummary) ==
  LET commits == parseCommits(logResult)
      fileChanges == parseFileChanges(diffSummary)
      totals == calculateTotals(fileChanges)
  IN success([currentBranch |-> currentBranch,
              commits |-> commits,
              fileChanges |-> fileChanges,
              diffContent |-> substring(diffResult, 0, DiffLimit),
              totalAdditions |-> totals.totalAdditions,
              totalDeletions |-> totals.totalDeletions])

\* the part of analyzeGitChanges after the three queries have answered
buildGitAnalysis(currentBranch, logResult, diffResult, diffSummary) ==
  LET commits == parseCommits(logResult)
      fileChanges == parseFileChanges(diffSummary)
      totals == calculateTotals(fileChanges)
  IN IF Len(commits) = 0
     THEN failure(Err("No commits found since base branch", "nocommits"))
     ELSE success([currentBranch |-> currentBranch,
                   commits |-> commits,
                   fileChanges |-> fileChanges,
                   diffContent |-> substring(diffResult, 0, DiffLimit),
                   totalAdditions |-> totals.totalAdditions,
                   totalDeletions |-> totals.totalDeletions])

(***************************************************************************)
(* ai-analysis.ts (second half of src/src/jira-api.ts).  Confidence is a   *)
(* number of hundredths: 0.3 is 30, 0.5 is 50, 1 is 100.                   *)
(***************************************************************************)
TitleLimit == 100
DefaultConfidence == 50
FallbackConfidence == 30

StoryTypes == {"feature", "bug", "chore"}
PointValues == {1, 2, 3, 5, 8}

\* response: [json, parsed]; json is whether JSON.parse accepts the text,
\* parsed its value; the field accesses on an undefined title or
\* description throw inside the try block
parseAIResponse(response) ==
  IF ~response.json
  THEN failure(Err("Failed to parse AI response: SyntaxError: Unexpected token", "generation"))
  ELSE
    LET parsed == response.parsed
        titleResult == validateNonEmpty(parsed.title, "title")
        descriptionResult == validateNonEmpty(parsed.description, "description")
        raw == IF parsed.hasConfidence /\ parsed.confidence # 0
               THEN parsed.confidence ELSE DefaultConfidence
    IN
    IF IsThrown(titleResult)
    THEN failure(Err("Failed to parse AI response: " \o titleResult.message, "generation"))
    ELSE IF ~titleResult.success THEN titleResult
    ELSE IF IsThrown(descriptionResult)
    THEN failure(Err("Failed to parse AI response: " \o descriptionResult.message, "generation"))
    ELSE IF ~descriptionResult.success THEN descriptionResult
    ELSE IF parsed.storyType \notin StoryTypes
    THEN failure(Err("Invalid story type", "generation"))
    ELSE IF parsed.estimatedPoints \notin PointValues
    THEN failure(Err("Invalid estimated points", "generation"))
    ELSE success([title |-> truncate(parsed.title, TitleLimit),
                  description |-> parsed.description,
                  storyType |-> parsed.storyType,
                  estimatedPoints |-> parsed.estimatedPoints,
                  suggestedLabels |-> IF parsed.labelsIsArray THEN parsed.suggestedLabels
                                      ELSE <<>>,
                  confidence |-> Max(0, Min(100, raw)),
                  source |-> "ai"])

RECURSIVE Join(_, _, _)
Join(seq, sep, i) ==
  IF i > Len(seq) THEN ""
  ELSE IF i = Len(seq) THEN seq[i]
  ELSE seq[i] \o sep \o Join(seq, sep, i + 1)

PathOf(f) == f.path
CommitLine(c) == c.hash \o ": " \o c.message

\* mutant: the point thresholds taken inclusive (>= 10, >= 5)
createFallbackAnalysisInclusive(gitAnalysis) ==
  LET IsTestPath(path) == includes(path, "test") \/ includes(path, "spec")
      IsUIPath(path) == includes(path, ".tsx") \/ includes(path, ".vue") \/ includes(path, ".jsx")
      IsAPIPath(path) == includes(path, "api") \/ includes(path, "controller")
      files == gitAnalysis.fileChanges
      hasTest == \E i \in 1..Len(files) : IsTestPath(files[i].path)
      hasUI == \E i \in 1..Len(files) : IsUIPath(files[i].path)
      hasAPI == \E i \in 1..Len(files) : IsAPIPath(files[i].path)
      isBugFix == \E i \in 1..Len(gitAnalysis.commits) :
                    includes(toLowerCase(gitAnalysis.commits[i].message), "fix")
      complexity == IF Len(gitAnalysis.fileChanges) >= 10 THEN 5
                    ELSE IF Len(gitAnalysis.fileChanges) >= 5 THEN 3 ELSE 1
  IN [title |-> "Work on " \o gitAnalysis.currentBranch,
      description |-> "Changes made in branch " \o gitAnalysis.currentBranch
                      \o "\n\nFiles changed:\n"
                      \o Join([i \in 1..Len(files) |-> PathOf(files[i])], "\n", 1)
                      \o "\n\nCommits:\n"
                      \o Join([i \in 1..Len(gitAnalysis.commits) |-> CommitLine(gitAnalysis.commits[i])], "\n", 1),
      storyType |-> IF isBugFix THEN "bug" ELSE "feature",
      estimatedPoints |-> complexity,
      suggestedLabels |-> (IF hasUI THEN <<"frontend">> ELSE <<>>)
                          \o (IF hasAPI THEN <<"backend">> ELSE <<>>)
                          \o (IF hasTest THEN <<"testing">> ELSE <<>>),
      confidence |-> FallbackConfidence,
      source |-> "fallback"]

\* the field `source` is history only: which path produced the draft
createFallbackAnalysis(gitAnalysis) ==
  LET IsTestPath(path) == includes(path, "test") \/ includes(path, "spec")
      IsUIPath(path) == includes(path, ".tsx") \/ includes(path, ".vue") \/ includes(path, ".jsx")
      IsAPIPath(path) == includes(path, "api") \/ includes(path, "controller")
      files == gitAnalysis.fileChanges
      hasTest == \E i \in 1..Len(files) : IsTestPath(files[i].path)
      hasUI == \E i \in 1..Len(files) : IsUIPath(files[i].path)
      hasAPI == \E i \in 1..Len(files) : IsAPIPath(files[i].path)
      isBugFix == \E i \in 1..Len(gitAnalysis.commits) :
                    includes(toLowerCase(gitAnalysis.commits[i].message), "fix")
      complexity == IF Len(gitAnalysis.fileChanges) > 10 THEN 5
                    ELSE IF Len(gitAnalysis.fileChanges) > 5 THEN 3 ELSE 1
  IN [title |-> "Work on " \o gitAnalysis.currentBranch,
      description |-> "Changes made in branch " \o gitAnalysis.currentBranch
                      \o "\n\nFiles changed:\n"
                      \o Join([i \in 1..Len(files) |-> PathOf(files[i])], "\n", 1)
                      \o "\n\nCommits:\n"
                      \o Join([i \in 1..Len(gitAnalysis.commits) |-> CommitLine(gitAnalysis.commits[i])], "\n", 1),
      storyType |-> IF isBugFix THEN "bug" ELSE "feature",
      estimatedPoints |-> complexity,
      suggestedLabels |-> (IF hasUI THEN <<"frontend">> ELSE <<>>)
                          \o (IF hasAPI THEN <<"backend">> ELSE <<>>)
                          \o (IF hasTest THEN <<"testing">> ELSE <<>>),
      confidence |-> FallbackConfidence,
      source |-> "fallback"]

\* mutant: the response is ignored, the fallback is always used
analyzeWithAIAlwaysFallback(gitAnalysis, outcome) ==
  success(createFallbackAnalysis(gitAnalysis))

\* mutant: a response that fails validation is returned as it is
analyzeWithAINoFallback(gitAnalysis, outcome) ==
  IF outcome.kind # "text" THEN success(createFallbackAnalysis(gitAnalysis))
  ELSE parseAIResponse(outcome.response)

\* outcome: what aiClient.analyze does: [kind, response]; kind "throw" is a
\* failed request, "empty" a completion without content (analyze throws
\* 'No response from AI'), "text" a completion whose content is response
analyzeWithAI(gitAnalysis, outcome) ==
  IF outcome.kind # "text" THEN success(createFallbackAnalysis(gitAnalysis))
  ELSE LET parseResult == parseAIResponse(outcome.response) IN
       IF parseResult.success THEN success(parseResult.data)
       ELSE success(createFallbackAnalysis(gitAnalysis))

(***************************************************************************)
(* jira-api.ts: the issue type of a draft                                  *)
(***************************************************************************)
\* a JavaScript value that is a function or an object, by its name
JsObject(type, name) == [type |-> type, nan |-> FALSE, n |-> 0, s |-> name]

\* the properties every object literal inherits from Object.prototype, with
\* the kind of value each holds
ObjectPrototypeProperties ==
  [constructor |-> "function", toString |-> "function", toLocaleString |-> "function",
   valueOf |-> "function", hasOwnProperty |-> "function", isPrototypeOf |-> "function",
   propertyIsEnumerable |-> "function", __proto__ |-> "object"]

\* `mapping[storyType] || 'Task'`: the property lookup on the object literal
\* finds its own three properties, then the inherited ones (all of them
\* truthy), and is undefined for every other name
mapStoryTypeToJiraIssueType(storyType) ==
  LET mapping == [feature |-> "Story", bug |-> "Bug", chore |-> "Task"]
  IN IF storyType \in DOMAIN mapping THEN JsStr(mapping[storyType])
     ELSE IF storyType \in DOMAIN ObjectPrototypeProperties
     THEN JsObject(ObjectPrototypeProperties[storyType], "Object.prototype." \o storyType)
     ELSE JsStr("Task")

(***************************************************************************)
(* Inputs: what the repository, the generation service and the trackers    *)
(* may answer                                                              *)
(***************************************************************************)
\* a branch name of 94 characters (git accepts names far longer)
LongBranch ==
  "feature/add-login-page-with-remember-me-checkbox-and-password-reset-link-and-two-factor-prompt"

InitialBranches ==
  {"add-login-page", "Feature/Login_Page", "sc-42-hotfix", "PROJ-7-cleanup", "main", "HEAD",
   "sc-feature", "develop", "__WIP__fix--bug!", LongBranch}

NotARepository == "fatal: not a git repository (or any of the parent directories): .git"
UnknownRevision == "fatal: ambiguous argument 'origin/main..HEAD': unknown revision"
BranchExists == "fatal: a branch with that name already exists"
PushRejected == "error: failed to push some refs to 'origin'"
DeleteRefused == "error: cannot delete branch checked out elsewhere"

Commit1 ==
  [hash |-> "3f2a9c1d7b8e4a6f0c5d2e1b9a8f7e6d5c4b3a29", message |-> "Fix: null pointer",
   author_name |-> "Ana", date |-> "2024-05-01T10:00:00Z"]
Commit2 ==
  [hash |-> "a1b2c3d4e5f60718293a4b5c6d7e8f9001122334", message |-> "Add login page",
   author_name |-> "Ben", date |-> "2024-05-02T11:30:00Z"]

LogResults == { <<>>, <<Commit1>>, <<Commit2, Commit1>> }

DiffTexts == { "diff --git a/src/login.tsx b/src/login.tsx\n+const a = 1;" }

File(path, ins, del, binary) ==
  [file |-> path, insertions |-> ins, deletions |-> del, binary |-> binary]

DiffSummaries ==
  { <<File("src/login.tsx", 10, 2, FALSE), File("src/login.spec.ts", 4, 0, FALSE),
      File("logo.png", 0, 0, TRUE)>>,
    <<File("server/api/users.ts", 1, 1, FALSE)>> }

ValidParsed ==
  [title |-> "Add login page", description |-> "Adds the login page and its form",
   storyType |-> "feature", estimatedPoints |-> 3, labelsIsArray |-> TRUE,
   suggestedLabels |-> <<"frontend">>, hasConfidence |-> TRUE, confidence |-> 85]

\* a title of 107 characters
LongTitle ==
  "Add the login page with a remember-me checkbox, a password reset link and a two-factor prompt to the portal"

AIOutcomes ==
  { [kind |-> "throw", response |-> [json |-> FALSE, parsed |-> ValidParsed]],
    [kind |-> "empty", response |-> [json |-> FALSE, parsed |-> ValidParsed]],
    [kind |-> "text", response |-> [json |-> FALSE, parsed |-> ValidParsed]],
    [kind |-> "text", response |-> [json |-> TRUE, parsed |-> ValidParsed]],
    [kind |-> "text",
     response |-> [json |-> TRUE, parsed |-> [ValidParsed EXCEPT !.storyType = "epic"]]],
    [kind |-> "text",
     response |-> [json |-> TRUE, parsed |-> [ValidParsed EXCEPT !.title = undefined]]],
    [kind |-> "text",
     response |-> [json |-> TRUE, parsed |-> [ValidParsed EXCEPT !.title = LongTitle]]] }

\* answers to an HTTP request: ok with a body (a JSON object, or the JSON
\* text null, which response.json() parses to null), ok with a body that is
\* not JSON (response.json() rejects), a non-success status with a body
\* text, or no answer at all (fetch rejects)
ShortcutIds == {42, 1007}
JiraIssues == { [id |-> "10042", key |-> "PROJ-1234"], [id |-> "7", key |-> "PROJ-7"] }

HttpFailures ==
  { [kind |-> "status", status |-> 401, body |-> "Unauthorized"],
    [kind |-> "status", status |-> 500, body |-> "story should be skipped by the importer"],
    [kind |-> "status", status |-> 422, body |-> "No commits found for this story"],
    [kind |-> "network", status |-> 0, body |-> "fetch failed"],
    [kind |-> "body", status |-> 200, body |-> "Unexpected token < in JSON at position 0"] }

\* the Error createHttpClient's post throws, or fetch's own rejection
HttpError(f) ==
  IF f.kind = "status"
  THEN Err("HTTP " \o NumToStr(f.status) \o ": " \o f.body, "tracker")
  ELSE Err(f.body, "tracker")

NullBodyError(property) ==
  "Cannot read properties of null (reading '" \o property \o "')"

ShortcutReplies(analysis) ==
  { [ok |-> TRUE, null |-> FALSE,
     response |-> [id |-> n,
                   app_url |-> "https://app.shortcut.com/acme/story/" \o NumToStr(n),
                   name |-> analysis.title, story_type |-> analysis.storyType],
     failure |-> CHOOSE f \in HttpFailures : TRUE] : n \in ShortcutIds }
  \cup { [ok |-> TRUE, null |-> TRUE,
          response |-> [id |-> 0, app_url |-> "", name |-> "", story_type |-> ""],
          failure |-> CHOOSE f \in HttpFailures : TRUE] }
  \cup { [ok |-> FALSE, null |-> FALSE,
          response |-> [id |-> 0, app_url |-> "", name |-> "", story_type |-> ""],
          failure |-> f] : f \in HttpFailures }

JiraReplies(baseUrl) ==
  { [ok |-> TRUE, null |-> FALSE,
     response |-> [id |-> i.id, key |-> i.key,
                   self |-> baseUrl \o "/rest/api/3/issue/" \o i.id],
     failure |-> CHOOSE f \in HttpFailures : TRUE] : i \in JiraIssues }
  \cup { [ok |-> TRUE, null |-> TRUE, response |-> [id |-> "", key |-> "", self |-> ""],
          failure |-> CHOOSE f \in HttpFailures : TRUE] }
  \cup { [ok |-> FALSE, null |-> FALSE, response |-> [id |-> "", key |-> "", self |-> ""],
          failure |-> f] : f \in HttpFailures }

(***************************************************************************)
(* State                                                                   *)
(***************************************************************************)
VARIABLES
  run,           \* number of the current run of the hook (one per push)
  pc,            \* the await point the run is suspended at
  repoBranch,    \* the branch checked out in the repository
  prevSuccess,   \* history: an earlier run's pipeline returned Ok
  config,        \* context.config once loadConfig succeeded
  currentBranch, \* analyzeGitChanges' currentBranch, "" until it is read
  queries,       \* the three Promise.all members: state and answer of each
  gitResult,     \* executeAnalysisPipeline's locals, None until assigned
  aiResult,
  issueResult,
  branchResult,
  jiraIssue,     \* createIssue's local result.data while the sprint call runs
  newBranchName, \* createStoryBranch's local
  result,        \* what executeAnalysisPipeline returned
  handled,       \* the Error handed to handlePipelineError
  stages,        \* history: the stages invoked in this run, in order
  calls,         \* history: the external operations attempted, in order
  failed,        \* history: the external operations that failed
  exitStatus,    \* "running", "normal" (exit code 0) or "failing" (non-zero)
  probe          \* a function applied on its own: its name, argument and value

runVars ==
  <<config, currentBranch, queries, gitResult, aiResult, issueResult, branchResult,
    jiraIssue, newBranchName, result, handled, stages, calls, failed, exitStatus>>

vars == <<run, pc, repoBranch, prevSuccess, runVars, probe>>

\* no function is applied on its own while the hook runs
NoProbe == [fn |-> "none", arg |-> None, done |-> FALSE, out |-> None]

QueryNames == {"log", "diff", "summary"}

IdleQueries ==
  [log |-> [st |-> "idle", val |-> <<>>],
   diff |-> [st |-> "idle", val |-> ""],
   summary |-> [st |-> "idle", val |-> <<>>]]

RunInit ==
  /\ config = None
  /\ currentBranch = ""
  /\ queries = IdleQueries
  /\ gitResult = None
  /\ aiResult = None
  /\ issueResult = None
  /\ branchResult = None
  /\ jiraIssue = None
  /\ newBranchName = ""
  /\ result = None
  /\ handled = None
  /\ stages = <<>>
  /\ calls = <<>>
  /\ failed = {}
  /\ exitStatus = "running"

Init ==
  /\ run = 1
  /\ pc = "start"
  /\ repoBranch \in InitialBranches
  /\ prevSuccess = FALSE
  /\ RunInit
  /\ probe = NoProbe

(***************************************************************************)
(* pipeline.ts / index.ts: how a stage's Err leaves the pipeline           *)
(***************************************************************************)
\* mutant: the pipeline wraps the stage's error in one of its own
ReturnErrWrapped(r) ==
  /\ result' = failure(Err("Pipeline failed: " \o r.error.message, r.error.origin))
  /\ handled' = result'.error
  /\ pc' = "handleError"

\* an exception thrown outside every try block of the stage: the stage's and
\* the pipeline's promises reject, and runShortcutHook's catch hands the
\* exception to handlePipelineError
Escapes(message) ==
  /\ handled' = Err(message, "uncaught")
  /\ pc' = "handleError"
  /\ UNCHANGED result

\* `if (!r.success) return r` in executeAnalysisPipeline, then
\* runShortcutHook's `handlePipelineError(result.error)` is next
ReturnErr(r) ==
  /\ result' = r
  /\ handled' = r.error
  /\ pc' = "handleError"

(***************************************************************************)
(* index.ts runShortcutHook up to the first repository answer              *)
(***************************************************************************)
LoadConfig(file) ==
  /\ pc = "start"
  /\ LET configResult == loadConfig(file) IN
     IF ~configResult.success
     THEN /\ handled' = configResult.error
          /\ pc' = "handleError"
          /\ UNCHANGED <<config, stages, calls>>
     ELSE \* executeAnalysisPipeline -> analyzeGitChanges -> getCurrentBranch()
          /\ config' = configResult.data
          /\ stages' = <<"extractor">>
          /\ calls' = <<"getCurrentBranch">>
          /\ pc' = "branch"
          /\ UNCHANGED handled
  /\ UNCHANGED <<probe, run, repoBranch, prevSuccess, currentBranch, queries, gitResult, aiResult,
                 issueResult, branchResult, jiraIssue, newBranchName, result, failed,
                 exitStatus>>

(***************************************************************************)
(* git.ts analyzeGitChanges                                                *)
(***************************************************************************)
\* getCurrentBranch() rejects: the catch block turns it into an Err
BranchQueryFails ==
  /\ pc = "branch"
  /\ gitResult' = failure(Err(NotARepository, "repository"))
  /\ failed' = failed \cup {"getCurrentBranch"}
  /\ ReturnErr(gitResult')
  /\ UNCHANGED <<probe, run, repoBranch, prevSuccess, config, currentBranch, queries, aiResult,
                 issueResult, branchResult, jiraIssue, newBranchName, stages, calls,
                 exitStatus>>

\* getCurrentBranch() answers: eligibility check, then the three queries
\* are issued together (Promise.all)
BranchQueryAnswers ==
  /\ pc = "branch"
  /\ currentBranch' = repoBranch
  /\ IF shouldSkipBranch(repoBranch, config.git.skipBranches)
     THEN /\ gitResult' = failure(Err("Branch " \o repoBranch \o " should be skipped", "skip"))
          /\ ReturnErr(gitResult')
          /\ UNCHANGED <<queries, calls>>
     ELSE /\ queries' = [k \in QueryNames |-> [queries[k] EXCEPT !.st = "pending"]]
          /\ calls' = calls \o <<"getCommitsSince", "getDiffSince", "getDiffSummary">>
          /\ pc' = "queries"
          /\ UNCHANGED <<gitResult, result, handled>>
  /\ UNCHANGED <<probe, run, repoBranch, prevSuccess, config, aiResult, issueResult, branchResult,
                 jiraIssue, newBranchName, stages, failed, exitStatus>>

QueryOp(k) ==
  IF k = "log" THEN "getCommitsSince"
  ELSE IF k = "diff" THEN "getDiffSince" ELSE "getDiffSummary"

QueryValues(k) ==
  IF k = "log" THEN LogResults ELSE IF k = "diff" THEN DiffTexts ELSE DiffSummaries

\* one of the three queries rejects: Promise.all rejects at once, the
\* answers of the others are never looked at
QueryFails(k) ==
  /\ pc = "queries"
  /\ queries[k].st = "pending"
  /\ queries' = [queries EXCEPT ![k].st = "failed"]
  /\ failed' = failed \cup {QueryOp(k)}
  /\ gitResult' = failure(Err(UnknownRevision, "repository"))
  /\ ReturnErr(gitResult')
  /\ UNCHANGED <<probe, run, repoBranch, prevSuccess, config, currentBranch, aiResult, issueResult,
                 branchResult, jiraIssue, newBranchName, stages, calls, exitStatus>>

\* one of the three queries answers; with the last answer Promise.all
\* resolves, the ChangeSet is built and, when it has commits, the pipeline
\* goes on to analyzeWithAI, which sends the prompt
QueryAnswers(k, val) ==
  /\ pc = "queries"
  /\ queries[k].st = "pending"
  /\ queries' = [queries EXCEPT ![k] = [st |-> "ok", val |-> val]]
  /\ IF \E j \in QueryNames : queries'[j].st # "ok"
     THEN UNCHANGED <<pc, gitResult, result, handled, stages, calls>>
     ELSE /\ gitResult' = buildGitAnalysis(currentBranch, queries'.log.val,
                                           queries'.diff.val, queries'.summary.val)
          /\ IF ~gitResult'.success
             THEN /\ ReturnErr(gitResult')
                  /\ UNCHANGED <<stages, calls>>
             ELSE /\ stages' = stages \o <<"synthesizer">>
                  /\ calls' = calls \o <<"analyze">>
                  /\ pc' = "ai"
                  /\ UNCHANGED <<result, handled>>
  /\ UNCHANGED <<probe, run, repoBranch, prevSuccess, config, currentBranch, aiResult, issueResult,
                 branchResult, jiraIssue, newBranchName, failed, exitStatus>>

(***************************************************************************)
(* pipeline.ts and git.ts: the branch name the rewriter is asked for       *)
(***************************************************************************)
\* the second argument executeAnalysisPipeline passes to createStoryBranch
StoryIdArgument(issue) ==
  IF issue.id.type = "number" THEN issue.id ELSE parseInt(issue.id.s)

\* mutant: the new name is built from the branch name as it is
NewBranchNameUnsanitized(branch, storyId) ==
  LET prefix == IF storyId.type = "string" THEN storyId.s
                ELSE "sc-" \o JsToString(storyId)
  IN prefix \o "-" \o branch

\* createStoryBranch's newBranchName
NewBranchName(branch, storyId) ==
  LET prefix == IF storyId.type = "string" THEN storyId.s
                ELSE "sc-" \o JsToString(storyId)
  IN prefix \o "-" \o sanitizeBranchName(branch)

\* executeAnalysisPipeline calls createStoryBranch, which computes the new
\* name and asks the repository to create and check out the branch
BeginRewrite(issue) ==
  /\ stages' = stages \o <<"rewriter">>
  /\ newBranchName' = NewBranchName(gitResult.data.currentBranch, StoryIdArgument(issue))
  /\ calls' = calls \o <<"createBranch">>
  /\ pc' = "createBranch"

(***************************************************************************)
(* issue-tracker.ts createIssue                                            *)
(***************************************************************************)
ShortcutCreated(response) ==
  [id |-> JsNum(response.id), url |-> response.app_url,
   key |-> response.name, type |-> response.story_type]

JiraCreated(response, analysis, cfg) ==
  [id |-> JsStr(response.id), url |-> cfg.jira.baseUrl \o "/browse/" \o response.key,
   key |-> response.key, type |-> analysis.storyType]

\* the generation call is over: analyzeWithAI returns, and createIssue runs
\* up to its first request
AIAnswers(outcome) ==
  /\ pc = "ai"
  /\ aiResult' = analyzeWithAI(gitResult.data, outcome)
  /\ failed' = IF outcome.kind = "text" THEN failed ELSE failed \cup {"analyze"}
  /\ IF ~aiResult'.success
     THEN /\ ReturnErr(aiResult')
          /\ UNCHANGED <<stages, calls, issueResult>>
     ELSE /\ stages' = stages \o <<"gateway">>
          /\ IF config.tracker = "shortcut"
             THEN IF config.shortcut = Absent
                  THEN /\ issueResult' =
                            failure(Err("Shortcut configuration is missing", "configuration"))
                       /\ ReturnErr(issueResult')
                       /\ UNCHANGED calls
                  ELSE /\ calls' = calls \o <<"shortcut:createStory">>
                       /\ pc' = "issue"
                       /\ UNCHANGED <<issueResult, result, handled>>
             ELSE IF config.tracker = "jira"
             THEN IF config.jira = Absent
                  THEN /\ issueResult' =
                            failure(Err("JIRA configuration is missing", "configuration"))
                       /\ ReturnErr(issueResult')
                       /\ UNCHANGED calls
                  ELSE /\ calls' = calls \o <<"jira:createIssue">>
                       /\ pc' = "issue"
                       /\ UNCHANGED <<issueResult, result, handled>>
             ELSE /\ issueResult' =
                       failure(Err("Unknown tracker type: " \o config.tracker, "configuration"))
                  /\ ReturnErr(issueResult')
                  /\ UNCHANGED calls
  /\ UNCHANGED <<probe, run, repoBranch, prevSuccess, config, currentBranch, queries, gitResult,
                 branchResult, jiraIssue, newBranchName, exitStatus>>

\* the Shortcut creation request is answered
ShortcutAnswers ==
  /\ pc = "issue"
  /\ config.tracker = "shortcut"
  /\ \E ans \in ShortcutReplies(aiResult.data) :
       IF ~ans.ok
       THEN /\ issueResult' = failure(HttpError(ans.failure))
            /\ failed' = failed \cup {"shortcut:createStory"}
            /\ ReturnErr(issueResult')
            /\ UNCHANGED <<stages, calls, newBranchName>>
       ELSE IF ans.null
       THEN \* `response.id` throws inside createShortcutStory's try
            /\ issueResult' = failure(Err(NullBodyError("id"), "tracker"))
            /\ ReturnErr(issueResult')
            /\ UNCHANGED <<failed, stages, calls, newBranchName>>
       ELSE /\ issueResult' = success(ShortcutCreated(ans.response))
            /\ BeginRewrite(issueResult'.data)
            /\ UNCHANGED <<failed, result, handled>>
  /\ UNCHANGED <<probe, run, repoBranch, prevSuccess, config, currentBranch, queries, gitResult,
                 aiResult, branchResult, jiraIssue, exitStatus>>

\* mutant: the add-to-sprint request follows every successful creation,
\* whether or not a sprint id is configured
JiraAnswersSprintUnconditional ==
  /\ pc = "issue"
  /\ config.tracker = "jira"
  /\ \E ans \in JiraReplies(config.jira.baseUrl) :
       IF ~ans.ok
       THEN /\ issueResult' = failure(HttpError(ans.failure))
            /\ failed' = failed \cup {"jira:createIssue"}
            /\ ReturnErr(issueResult')
            /\ UNCHANGED <<stages, calls, newBranchName, jiraIssue>>
       ELSE IF ans.null
       THEN /\ Escapes(NullBodyError("key"))
            /\ UNCHANGED <<issueResult, failed, stages, calls, newBranchName, jiraIssue>>
       ELSE /\ jiraIssue' = ans.response
            /\ calls' = calls \o <<"jira:addToSprint">>
            /\ pc' = "sprint"
            /\ UNCHANGED <<issueResult, failed, result, handled, stages, newBranchName>>
  /\ UNCHANGED <<probe, run, repoBranch, prevSuccess, config, currentBranch, queries, gitResult,
                 aiResult, branchResult, exitStatus>>

\* the Jira creation request is answered; with a sprint id configured the
\* add-to-sprint request follows
JiraAnswers ==
  /\ pc = "issue"
  /\ config.tracker = "jira"
  /\ \E ans \in JiraReplies(config.jira.baseUrl) :
       IF ~ans.ok
       THEN /\ issueResult' = failure(HttpError(ans.failure))
            /\ failed' = failed \cup {"jira:createIssue"}
            /\ ReturnErr(issueResult')
            /\ UNCHANGED <<stages, calls, newBranchName, jiraIssue>>
       ELSE IF ans.null
       THEN \* createJiraIssue returns success(null); createIssue reads
            \* result.data.key (sprint configured) or result.data.id outside
            \* any try block
            /\ Escapes(NullBodyError(IF config.jira.sprintId # 0 THEN "key" ELSE "id"))
            /\ UNCHANGED <<issueResult, failed, stages, calls, newBranchName, jiraIssue>>
       ELSE IF config.jira.sprintId # 0
       THEN /\ jiraIssue' = ans.response
            /\ calls' = calls \o <<"jira:addToSprint">>
            /\ pc' = "sprint"
            /\ UNCHANGED <<issueResult, failed, result, handled, stages, newBranchName>>
       ELSE /\ issueResult' = success(JiraCreated(ans.response, aiResult.data, config))
            /\ BeginRewrite(issueResult'.data)
            /\ UNCHANGED <<failed, result, handled, jiraIssue>>
  /\ UNCHANGED <<probe, run, repoBranch, prevSuccess, config, currentBranch, queries, gitResult,
                 aiResult, branchResult, exitStatus>>

\* mutant: a failed add-to-sprint request fails createIssue
SprintFatal(ok) ==
  /\ pc = "sprint"
  /\ IF ok
     THEN /\ issueResult' = success(JiraCreated(jiraIssue, aiResult.data, config))
          /\ BeginRewrite(issueResult'.data)
          /\ UNCHANGED <<failed, result, handled>>
     ELSE /\ issueResult' = failure(Err("HTTP 400: sprint is closed", "tracker"))
          /\ failed' = failed \cup {"jira:addToSprint"}
          /\ ReturnErr(issueResult')
          /\ UNCHANGED <<stages, calls, newBranchName>>
  /\ UNCHANGED <<probe, run, repoBranch, prevSuccess, config, currentBranch, queries, gitResult,
                 aiResult, branchResult, jiraIssue, exitStatus>>

\* the add-to-sprint request is answered: a failure is only logged
SprintAnswers(ok) ==
  /\ pc = "sprint"
  /\ failed' = IF ok THEN failed ELSE failed \cup {"jira:addToSprint"}
  /\ issueResult' = success(JiraCreated(jiraIssue, aiResult.data, config))
  /\ BeginRewrite(issueResult'.data)
  /\ UNCHANGED <<probe, run, repoBranch, prevSuccess, config, currentBranch, queries, gitResult,
                 aiResult, branchResult, jiraIssue, result, handled, exitStatus>>

(***************************************************************************)
(* git.ts createStoryBranch                                                *)
(***************************************************************************)
\* createBranch (checkoutBranch) is answered; on success the new branch is
\* checked out and the push is issued
CreateBranchAnswers(ok) ==
  /\ pc = "createBranch"
  /\ IF ok
     THEN /\ repoBranch' = newBranchName
          /\ calls' = calls \o <<"pushBranch">>
          /\ pc' = "push"
          /\ UNCHANGED <<branchResult, failed, result, handled>>
     ELSE /\ branchResult' = failure(Err(BranchExists, "rewrite"))
          /\ failed' = failed \cup {"createBranch"}
          /\ ReturnErr(branchResult')
          /\ UNCHANGED <<repoBranch, calls>>
  /\ UNCHANGED <<probe, run, prevSuccess, config, currentBranch, queries, gitResult, aiResult,
                 issueResult, jiraIssue, newBranchName, stages, exitStatus>>

\* mutant: a failed push is treated like a failed clean-up step
PushBestEffort(ok) ==
  /\ pc = "push"
  /\ failed' = IF ok THEN failed ELSE failed \cup {"pushBranch"}
  /\ calls' = calls \o <<"deleteBranch">>
  /\ pc' = "deleteLocal"
  /\ UNCHANGED <<probe, run, repoBranch, prevSuccess, config, currentBranch, queries, gitResult,
                 aiResult, issueResult, branchResult, jiraIssue, newBranchName, result,
                 handled, stages, exitStatus>>

\* pushBranch(newBranchName, true) is answered
PushAnswers(ok) ==
  /\ pc = "push"
  /\ IF ok
     THEN /\ calls' = calls \o <<"deleteBranch">>
          /\ pc' = "deleteLocal"
          /\ UNCHANGED <<branchResult, failed, result, handled>>
     ELSE /\ branchResult' = failure(Err(PushRejected, "rewrite"))
          /\ failed' = failed \cup {"pushBranch"}
          /\ ReturnErr(branchResult')
          /\ UNCHANGED calls
  /\ UNCHANGED <<probe, run, repoBranch, prevSuccess, config, currentBranch, queries, gitResult,
                 aiResult, issueResult, jiraIssue, newBranchName, stages, exitStatus>>

\* mutant: the deletion of the old local branch is not wrapped in try/catch
DeleteBranchUncaught(ok) ==
  /\ pc = "deleteLocal"
  /\ IF ok
     THEN /\ calls' = calls \o <<"deleteRemoteBranch">>
          /\ pc' = "deleteRemote"
          /\ UNCHANGED <<branchResult, failed, result, handled>>
     ELSE /\ branchResult' = failure(Err(DeleteRefused, "rewrite"))
          /\ failed' = failed \cup {"deleteBranch"}
          /\ ReturnErr(branchResult')
          /\ UNCHANGED calls
  /\ UNCHANGED <<probe, run, repoBranch, prevSuccess, config, currentBranch, queries, gitResult,
                 aiResult, issueResult, jiraIssue, newBranchName, stages, exitStatus>>

\* mutant: a failed deleteBranch is attempted a second time
DeleteBranchRetried(ok) ==
  /\ pc = "deleteLocal"
  /\ failed' = IF ok THEN failed ELSE failed \cup {"deleteBranch"}
  /\ IF ~ok /\ "deleteBranch" \notin failed
     THEN /\ calls' = calls \o <<"deleteBranch">>
          /\ pc' = "deleteLocal"
     ELSE /\ calls' = calls \o <<"deleteRemoteBranch">>
          /\ pc' = "deleteRemote"
  /\ UNCHANGED <<probe, run, repoBranch, prevSuccess, config, currentBranch, queries, gitResult,
                 aiResult, issueResult, branchResult, jiraIssue, newBranchName, result,
                 handled, stages, exitStatus>>

\* mutant: when deleteBranch fails the remote deletion is left out
DeleteBranchSkipsRemote(ok) ==
  /\ pc = "deleteLocal"
  /\ failed' = IF ok THEN failed ELSE failed \cup {"deleteBranch"}
  /\ IF ok
     THEN /\ calls' = calls \o <<"deleteRemoteBranch">>
          /\ pc' = "deleteRemote"
          /\ UNCHANGED <<branchResult, result>>
     ELSE /\ branchResult' = success(newBranchName)
          /\ result' = success([gitAnalysis |-> gitResult.data,
                                storyAnalysis |-> aiResult.data,
                                createdStory |-> [id |-> issueResult.data.id,
                                                  app_url |-> issueResult.data.url,
                                                  name |-> issueResult.data.key,
                                                  story_type |-> issueResult.data.type],
                                updatedBranch |-> branchResult'.data])
          /\ pc' = "handleSuccess"
          /\ UNCHANGED calls
  /\ UNCHANGED <<probe, run, repoBranch, prevSuccess, config, currentBranch, queries, gitResult,
                 aiResult, issueResult, jiraIssue, newBranchName, handled, stages, exitStatus>>

\* deleteBranch(currentBranch) is answered; its failure is caught and logged
DeleteBranchAnswers(ok) ==
  /\ pc = "deleteLocal"
  /\ failed' = IF ok THEN failed ELSE failed \cup {"deleteBranch"}
  /\ calls' = calls \o <<"deleteRemoteBranch">>
  /\ pc' = "deleteRemote"
  /\ UNCHANGED <<probe, run, repoBranch, prevSuccess, config, currentBranch, queries, gitResult,
                 aiResult, issueResult, branchResult, jiraIssue, newBranchName, result,
                 handled, stages, exitStatus>>

\* deleteRemoteBranch(currentBranch) is answered; its failure is caught and
\* logged; createStoryBranch returns and the pipeline returns its record
DeleteRemoteAnswers(ok) ==
  /\ pc = "deleteRemote"
  /\ failed' = IF ok THEN failed ELSE failed \cup {"deleteRemoteBranch"}
  /\ branchResult' = success(newBranchName)
  /\ result' = success([gitAnalysis |-> gitResult.data,
                        storyAnalysis |-> aiResult.data,
                        createdStory |-> [id |-> issueResult.data.id,
                                          app_url |-> issueResult.data.url,
                                          name |-> issueResult.data.key,
                                          story_type |-> issueResult.data.type],
                        updatedBranch |-> branchResult'.data])
  /\ pc' = "handleSuccess"
  /\ UNCHANGED <<probe, run, repoBranch, prevSuccess, config, currentBranch, queries, gitResult,
                 aiResult, issueResult, jiraIssue, newBranchName, handled, stages, calls,
                 exitStatus>>

(***************************************************************************)
(* pipeline.ts result handlers                                             *)
(***************************************************************************)
\* the exit status handlePipelineError leaves the process with: it returns
\* for the two skip messages (the process then ends normally) and calls
\* process.exit(1) otherwise
handlePipelineError(error) ==
  IF includes(error.message, "should be skipped") THEN "normal"
  ELSE IF includes(error.message, "No commits found") THEN "normal"
  ELSE "failing"

\* process.exit(1) after the report
handlePipelineSuccess(pipeline) == "failing"

HandlePipelineError ==
  /\ pc = "handleError"
  /\ exitStatus' = handlePipelineError(handled)
  /\ pc' = "done"
  /\ UNCHANGED <<probe, run, repoBranch, prevSuccess, config, currentBranch, queries, gitResult,
                 aiResult, issueResult, branchResult, jiraIssue, newBranchName, result,
                 handled, stages, calls, failed>>

HandlePipelineSuccess ==
  /\ pc = "handleSuccess"
  /\ exitStatus' = handlePipelineSuccess(result.data)
  /\ pc' = "done"
  /\ UNCHANGED <<probe, run, repoBranch, prevSuccess, config, currentBranch, queries, gitResult, aiResult,
                 issueResult, branchResult, jiraIssue, newBranchName, result, handled,
                 stages, calls, failed>>

\* the developer pushes again: the hook runs anew on the repository as the
\* last run left it
NextRun ==
  /\ pc = "done"
  /\ run < MaxRuns
  /\ run' = run + 1
  /\ pc' = "start"
  /\ config' = None
  /\ currentBranch' = ""
  /\ queries' = IdleQueries
  /\ gitResult' = None
  /\ aiResult' = None
  /\ issueResult' = None
  /\ branchResult' = None
  /\ jiraIssue' = None
  /\ newBranchName' = ""
  /\ result' = None
  /\ handled' = None
  /\ stages' = <<>>
  /\ calls' = <<>>
  /\ failed' = {}
  /\ exitStatus' = "running"
  /\ prevSuccess' = (prevSuccess \/ (result # None /\ result.success))
  /\ UNCHANGED <<probe, repoBranch>>

Next ==
  \/ \E file \in ConfigFiles : LoadConfig(file)
  \/ BranchQueryFails
  \/ BranchQueryAnswers
  \/ \E k \in QueryNames : QueryFails(k)
  \/ \E k \in QueryNames : \E val \in QueryValues(k) : QueryAnswers(k, val)
  \/ \E outcome \in AIOutcomes : AIAnswers(outcome)
  \/ ShortcutAnswers
  \/ JiraAnswers
  \/ \E ok \in BOOLEAN : SprintAnswers(ok)
  \/ \E ok \in BOOLEAN : CreateBranchAnswers(ok)
  \/ \E ok \in BOOLEAN : PushAnswers(ok)
  \/ \E ok \in BOOLEAN : DeleteBranchAnswers(ok)
  \/ \E ok \in BOOLEAN : DeleteRemoteAnswers(ok)
  \/ HandlePipelineError
  \/ HandlePipelineSuccess
  \/ NextRun

Spec == Init /\ [][Next]_vars

(***************************************************************************)
(* The pure functions applied on their own: the initial state draws a      *)
(* function and an argument, the function's action computes its value.     *)
(* The hook itself does not run in these behaviours.                       *)
(***************************************************************************)
Probe(fn, arg) == [fn |-> fn, arg |-> arg, done |-> FALSE, out |-> None]

\* branch names and skip lists for shouldSkipBranch, beside the ones the
\* runs of the hook meet
BranchSamples ==
  InitialBranches \cup
  {"", "sc-", "sc-4", "sc4-x", "Sc-42", "sc--1", "proj-7-x", "PROJ-x", "PROJ7", "P-1",
   "-1", "A1-2", "fix-sc-42", "fix-PROJ-7", "master", "release/1.0"}

SkipListSamples ==
  {<<>>, DefaultSkipBranches, <<"main", "HEAD">>, <<"release/1.0", "sc-", "proj-7-x">>}

ShouldSkipProbes ==
  { Probe("shouldSkipBranch", [branch |-> b, skipBranches |-> l]) :
      b \in BranchSamples, l \in SkipListSamples }

\* ChangeSets for createFallbackAnalysis: file lists of the lengths around
\* the two thresholds, paths that do and do not match the label rules,
\* commit messages with and without "fix" in either case
PlainPaths == <<"README.md", "src/index.ts", "package.json", "docs/guide.md">>

FileChange(path) == [path |-> path, additions |-> 1, deletions |-> 0, status |-> "modified"]

PlainFiles(n) == [i \in 1..n |-> FileChange(PlainPaths[((i - 1) % 4) + 1])]

FileCounts == {0, 1, 5, 6, 10, 11, 12}

PathSamples ==
  { <<"src/login.tsx">>, <<"web/App.vue">>, <<"ui/button.jsx">>, <<"src/Login.TSX">>,
    <<"server/api/users.ts">>, <<"app/user_controller.rb">>, <<"docs/API.md">>,
    <<"src/login.test.ts">>, <<"src/inspector.ts">>,
    <<"src/null.ts", "src/null.spec.ts", "README.md">> }

FileSamples ==
  { PlainFiles(n) : n \in FileCounts }
  \cup { [i \in 1..Len(p) |-> FileChange(p[i])] : p \in PathSamples }

MessageSamples ==
  { <<"fix: null pointer">>, <<"Add login page">>, <<"Add page", "HOTFIX for prod">>,
    <<"Refactor suffixes">>, <<"Update docs", "Bump deps">> }

ChangeSetSamples ==
  { [currentBranch |-> "add-login-page",
     commits |-> [i \in 1..Len(m) |->
                    [hash |-> "3f2a9c1", message |-> m[i], author |-> "Ana",
                     date |-> "2024-05-01T10:00:00Z"]],
     fileChanges |-> f,
     diffContent |-> "",
     totalAdditions |-> Len(f),
     totalDeletions |-> 0] : m \in MessageSamples, f \in FileSamples }

FallbackProbes == { Probe("createFallbackAnalysis", cs) : cs \in ChangeSetSamples }

\* names for sanitizeBranchName: every string of at most MaxNameLen
\* characters over a lower-case letter, an upper-case letter, a digit, a
\* hyphen and two characters outside [a-z0-9-], and the branch names of the
\* runs
NameAlphabet == {"a", "Z", "7", "-", "_", "/"}

RECURSIVE NamesOfLength(_)
NamesOfLength(n) ==
  IF n = 0 THEN {""} ELSE { s \o c : s \in NamesOfLength(n - 1), c \in NameAlphabet }

NameSamples ==
  UNION { NamesOfLength(n) : n \in 0..MaxNameLen } \cup InitialBranches
    \cup {"--fix--", "Release 2.0 (final)", "sc-42-add-login-page"}

SanitizeProbes == { Probe("sanitizeBranchName", name) : name \in NameSamples }

\* story types for mapStoryTypeToJiraIssueType: the three of the domain and
\* other strings
StoryTypeSamples ==
  StoryTypes \cup {"", "epic", "task", "Feature", "BUG", "story", "feature ",
                   "constructor", "toString", "valueOf", "__proto__", "hasOwnProperty"}

StoryTypeProbes == { Probe("mapStoryTypeToJiraIssueType", t) : t \in StoryTypeSamples }

\* generation-service responses for parseAIResponse: text that is not JSON,
\* and JSON values whose fields are valid, missing, blank, over-long or out
\* of range; a value with every field undefined stands for a JSON number,
\* string, array or empty object
Title100 ==
  "Add the login page with a remember-me checkbox, a password reset link and a two-factor prompt for me"
Title101 == Title100 \o "n"

ParsedSamples ==
  { ValidParsed }
  \cup { [ValidParsed EXCEPT !.title = t] :
           t \in {undefined, "", "   ", " Add login ", Title100, Title101, LongTitle} }
  \cup { [ValidParsed EXCEPT !.description = d] : d \in {undefined, "", " "} }
  \cup { [ValidParsed EXCEPT !.storyType = t] :
           t \in {"bug", "chore", "epic", "Feature", "", undefined} }
  \cup { [ValidParsed EXCEPT !.estimatedPoints = n] : n \in {0, 1, 2, 4, 5, 8, 13} }
  \cup { [ValidParsed EXCEPT !.confidence = c] : c \in {-20, 0, 1, 30, 100, 101, 150} }
  \cup { [ValidParsed EXCEPT !.hasConfidence = FALSE, !.confidence = 0],
         [ValidParsed EXCEPT !.labelsIsArray = FALSE, !.suggestedLabels = <<>>],
         [ValidParsed EXCEPT !.title = LongTitle, !.confidence = 0],
         [ValidParsed EXCEPT !.title = undefined, !.description = undefined,
                             !.storyType = undefined, !.estimatedPoints = 0,
                             !.labelsIsArray = FALSE, !.suggestedLabels = <<>>,
                             !.hasConfidence = FALSE, !.confidence = 0] }

ResponseSamples ==
  { [json |-> FALSE, parsed |-> ValidParsed] }
  \cup { [json |-> TRUE, parsed |-> p] : p \in ParsedSamples }

ParseProbes == { Probe("parseAIResponse", r) : r \in ResponseSamples }

\* what aiClient.analyze does, for analyzeWithAI: it throws, it finds no
\* content, or it returns one of the responses
OutcomeSamples ==
  AIOutcomes \cup { [kind |-> "text", response |-> r] : r \in ResponseSamples }

AnalyzeChangeSets ==
  { cs \in ChangeSetSamples :
      /\ Len(cs.fileChanges) \in {1, 11}
      /\ cs.commits[1].message \in {"fix: null pointer", "Add login page"} }

AnalyzeProbes ==
  { Probe("analyzeWithAI", [gitAnalysis |-> cs, outcome |-> o]) :
      cs \in AnalyzeChangeSets, o \in OutcomeSamples }

\* Results and functions for the combinators: payloads 0..2, two errors,
\* functions that return a value, that return a Result, and that throw on
\* some or on all payloads
Payloads == 0..2

ResultSamples ==
  { success(d) : d \in Payloads }
  \cup { failure(Err(m, "input")) : m \in {"first failure", "second failure"} }

ValueFunctions ==
  { [map |-> [d \in Payloads |-> d + 1], throws |-> {}],
    [map |-> [d \in Payloads |-> 7], throws |-> {}],
    [map |-> [d \in Payloads |-> d + 1], throws |-> {1}],
    [map |-> [d \in Payloads |-> d + 1], throws |-> Payloads] }

ResultFunctions ==
  { [map |-> [d \in Payloads |-> success(d + 1)], throws |-> {}],
    [map |-> [d \in Payloads |-> failure(Err("step failed", "fn"))], throws |-> {}],
    [map |-> [d \in Payloads |-> IF d = 0 THEN failure(Err("step failed", "fn"))
                                  ELSE success(d)], throws |-> {}],
    [map |-> [d \in Payloads |-> success(d)], throws |-> Payloads] }

PromiseSamples ==
  { [rejected |-> FALSE, value |-> r] : r \in ResultSamples }
  \cup { [rejected |-> TRUE, value |-> Err("connection reset", "promise")] }

CombinatorProbes ==
  { Probe("mapResult", [result |-> r, fn |-> f]) : r \in ResultSamples, f \in ValueFunctions }
  \cup { Probe("flatMapResult", [result |-> r, fn |-> f]) :
           r \in ResultSamples, f \in ResultFunctions }
  \cup { Probe("mapAsyncResult", [result |-> p, fn |-> f]) :
           p \in PromiseSamples, f \in ValueFunctions }

\* answers of the three queries for analyzeGitChanges: diffs of lengths
\* around the limit, hashes longer and shorter than seven characters,
\* summaries with several files
RECURSIVE Repeat(_, _)
Repeat(s, n) ==
  IF n = 0 THEN ""
  ELSE LET half == Repeat(s, n \div 2) IN
       half \o half \o (IF n % 2 = 1 THEN s ELSE "")

DiffLengths == {0, 61, DiffLimit - 1, DiffLimit, DiffLimit + 1, DiffLimit + 4000}

DiffSamples ==
  { SubSeq(Repeat("+0123456789abcdef\n", (n \div 18) + 1), 1, n) : n \in DiffLengths }

LogSamples ==
  LogResults \cup { <<[Commit1 EXCEPT !.hash = "3f2a9"]>>, <<[Commit1 EXCEPT !.hash = "3f2a9c1"]>>,
                    <<[Commit1 EXCEPT !.hash = "3f2a9c1d"], Commit2>> }

SummarySamples ==
  DiffSummaries \cup { <<>>, <<File("a.ts", 120, 0, FALSE), File("b.ts", 0, 45, FALSE),
                              File("c.ts", 7, 7, FALSE), File("logo.png", 0, 0, TRUE)>> }

GitAnswerProbes ==
  { Probe("analyzeGitChanges",
          [currentBranch |-> "add-login-page", logResult |-> l, diffResult |-> d,
           diffSummary |-> f]) : l \in LogSamples, d \in DiffSamples, f \in SummarySamples }

ProbeInputs ==
  ShouldSkipProbes \cup FallbackProbes \cup SanitizeProbes \cup StoryTypeProbes
    \cup ParseProbes \cup AnalyzeProbes \cup CombinatorProbes \cup GitAnswerProbes

ProbeInit ==
  /\ run = 1
  /\ pc = "start"
  /\ repoBranch = "main"
  /\ prevSuccess = FALSE
  /\ RunInit
  /\ probe \in ProbeInputs

Returns(fn, value) ==
  /\ probe.fn = fn
  /\ ~probe.done
  /\ probe' = [probe EXCEPT !.done = TRUE, !.out = value]
  /\ UNCHANGED <<run, pc, repoBranch, prevSuccess, runVars>>

ApplyShouldSkipBranch ==
  Returns("shouldSkipBranch", shouldSkipBranch(probe.arg.branch, probe.arg.skipBranches))

ApplyCreateFallbackAnalysis ==
  Returns("createFallbackAnalysis", createFallbackAnalysis(probe.arg))

ApplySanitizeBranchName ==
  Returns("sanitizeBranchName", sanitizeBranchName(probe.arg))

ApplyMapStoryTypeToJiraIssueType ==
  Returns("mapStoryTypeToJiraIssueType", mapStoryTypeToJiraIssueType(probe.arg))

ApplyParseAIResponse ==
  Returns("parseAIResponse", parseAIResponse(probe.arg))

ApplyAnalyzeWithAI ==
  Returns("analyzeWithAI", analyzeWithAI(probe.arg.gitAnalysis, probe.arg.outcome))

ApplyMapResult ==
  Returns("mapResult", mapResult(probe.arg.result, probe.arg.fn))

ApplyFlatMapResult ==
  Returns("flatMapResult", flatMapResult(probe.arg.result, probe.arg.fn))

ApplyMapAsyncResult ==
  Returns("mapAsyncResult", mapAsyncResult(probe.arg.result, probe.arg.fn))

\* analyzeGitChanges from the point where the three queries have answered
ApplyAnalyzeGitChanges ==
  Returns("analyzeGitChanges",
          buildGitAnalysis(probe.arg.currentBranch, probe.arg.logResult,
                           probe.arg.diffResult, probe.arg.diffSummary))

ProbeNext ==
  \/ ApplyShouldSkipBranch
  \/ ApplyCreateFallbackAnalysis
  \/ ApplySanitizeBranchName
  \/ ApplyMapStoryTypeToJiraIssueType
  \/ ApplyParseAIResponse
  \/ ApplyAnalyzeWithAI
  \/ ApplyMapResult
  \/ ApplyFlatMapResult
  \/ ApplyMapAsyncResult
  \/ ApplyAnalyzeGitChanges

ProbeSpec == ProbeInit /\ [][ProbeNext]_vars

(***************************************************************************)
(* Properties                                                              *)
(***************************************************************************)
StageOrder == <<"extractor", "synthesizer", "gateway", "rewriter">>
StageResults == <<gitResult, aiResult, issueResult, branchResult>>

IsErr(r) == r # None /\ ~r.success
IsSuccess(r) == r # None /\ r.success

Attempted(op) == SeqContains(calls, op)
Finished == pc = "done"

\* C1: the stages are invoked in the order extractor, synthesizer, gateway,
\* rewriter; a stage is invoked only when every earlier stage returned Ok;
\* when a stage returns Err no later stage is invoked and the pipeline
\* returns that same Err.
C1_StagesInOrderShortCircuit ==
  /\ Len(stages) <= 4
  /\ \A i \in 1..Len(stages) : stages[i] = StageOrder[i]
  /\ \A i \in 1..Len(stages) : \A j \in 1..(i - 1) : IsSuccess(StageResults[j])
  /\ \A i \in 1..4 : StageResults[i] # None => i <= Len(stages)
  /\ \A i \in 1..4 : IsErr(StageResults[i]) => (Len(stages) = i /\ result = StageResults[i])
  /\ IsErr(result) => \E i \in 1..4 : result = StageResults[i]

C1_Witness ==
  /\ IsErr(issueResult)
  /\ stages = <<"extractor", "synthesizer", "gateway">>
  /\ Finished

SkipOrigins == {"skip", "nocommits"}

\* C2: handlePipelineError leaves the process with a normal exit exactly
\* for the errors the eligibility check and the empty-commit check
\* produce; every other error ends the process with a failing status.
C2_NormalExitOnlyForSkipErrors ==
  (Finished /\ handled # None) =>
    (exitStatus = "normal" <=> handled.origin \in SkipOrigins)

\* the claim's notion of an ineligible branch, stated apart from the code
CarriesIssuePrefix(branch) ==
  \/ /\ Len(branch) >= 4
     /\ SubSeq(branch, 1, 3) = "sc-"
     /\ \E n \in 4..Len(branch) : \A i \in 4..n : IsDigit(Char(branch, i))
  \/ \E k \in 1..(Len(branch) - 2) :
       /\ Char(branch, k + 1) = "-"
       /\ \A i \in 1..k : IsUpper(Char(branch, i))
       /\ \E n \in (k + 2)..Len(branch) : \A i \in (k + 2)..n : IsDigit(Char(branch, i))

Ineligible(branch, skipList) ==
  CarriesIssuePrefix(branch) \/ \E i \in 1..Len(skipList) : skipList[i] = branch

\* C3: when the branch the extractor reads is ineligible, the run issues
\* nothing but the current-branch query (no log, diff or diff-summary
\* query, no generation call, no tracker call, no branch operation) and
\* the process exits normally.
C3_IneligibleBranchIsSilentSkip ==
  (currentBranch # "" /\ Ineligible(currentBranch, config.git.skipBranches)) =>
    /\ calls = <<"getCurrentBranch">>
    /\ stages = <<"extractor">>
    /\ exitStatus # "failing"
    /\ Finished => exitStatus = "normal"

C3_Witness ==
  /\ Finished
  /\ currentBranch = "PROJ-7-cleanup"
  /\ exitStatus = "normal"
  /\ calls = <<"getCurrentBranch">>

\* C4: a finished run has exactly one of three outcomes, with this exit
\* status: skip condition - normal; hard failure - failing; pipeline
\* success - failing.
C4_ExitStatusByOutcome ==
  Finished =>
    /\ IsSuccess(result) <=> handled = None
    /\ IsSuccess(result) => exitStatus = "failing"
    /\ (handled # None /\ handled.origin \in SkipOrigins) => exitStatus = "normal"
    /\ (handled # None /\ handled.origin \notin SkipOrigins) => exitStatus = "failing"

\* C5: analyzeWithAI returns Ok with one draft whatever the generation
\* service does (request fails, empty completion, text that is not JSON,
\* JSON that fails validation, valid JSON); it never returns Err.
C5_SynthesizerNeverFails ==
  /\ aiResult # None => (aiResult.success /\ aiResult.data.source \in {"ai", "fallback"})
  /\ IsSuccess(gitResult) =>
       \A outcome \in AIOutcomes : analyzeWithAI(gitResult.data, outcome).success
  /\ (Len(stages) >= 2 /\ pc # "ai") => IsSuccess(aiResult)

C5_Witness ==
  /\ IsSuccess(aiResult)
  /\ aiResult.data.source = "fallback"
  /\ "analyze" \notin failed
  /\ Len(stages) >= 3

\* the Shortcut scenario of C6: eligible branch with commits, generation
\* service unreachable, story created, new branch created and published
ShortcutFallbackScenario ==
  /\ config # None
  /\ config.tracker = "shortcut"
  /\ "analyze" \in failed
  /\ IsSuccess(issueResult)
  /\ Attempted("pushBranch")
  /\ failed \cap {"createBranch", "pushBranch"} = {}
  /\ pc # "push"

\* C6: in that scenario the pipeline returns Ok, its draft is the fallback
\* draft with confidence 0.3, and its updated branch is "sc-N-" followed
\* by the sanitized name of the branch, N being the id the tracker
\* returned ("add-login-page" with id 42 gives "sc-42-add-login-page").
C6_ShortcutFallbackRename ==
  ShortcutFallbackScenario =>
    /\ ~IsErr(result)
    /\ pc \in {"handleSuccess", "done"} =>
         /\ IsSuccess(result)
         /\ result.data.storyAnalysis = createFallbackAnalysis(gitResult.data)
         /\ result.data.storyAnalysis.source = "fallback"
         /\ result.data.storyAnalysis.confidence = 30
         /\ result.data.updatedBranch =
              "sc-" \o NumToStr(issueResult.data.id.n) \o "-"
                \o sanitizeBranchName(currentBranch)
         /\ (currentBranch = "add-login-page" /\ issueResult.data.id.n = 42)
              => result.data.updatedBranch = "sc-42-add-login-page"
         /\ (currentBranch = "Feature/Login_Page" /\ issueResult.data.id.n = 1007)
              => result.data.updatedBranch = "sc-1007-feature-login-page"

C6_Witness ==
  /\ ShortcutFallbackScenario
  /\ Finished
  /\ currentBranch = "Feature/Login_Page"
  /\ result.data.updatedBranch = "sc-1007-feature-login-page"
  /\ result.data.storyAnalysis.confidence = 30

\* C7: with the Jira tracker a successful run renames the branch to the
\* issue key returned by the creation call, a hyphen and the sanitized
\* original name, not to an "sc-<number>" name.
C7_JiraRenameUsesIssueKey ==
  (config # None /\ config.tracker = "jira" /\ IsSuccess(result)) =>
    /\ result.data.updatedBranch =
         issueResult.data.key \o "-" \o sanitizeBranchName(currentBranch)
    /\ ~startsWith(result.data.updatedBranch, "sc-")

RunCreatesNothing ==
  \A op \in {"analyze", "shortcut:createStory", "jira:createIssue", "jira:addToSprint",
             "createBranch", "pushBranch", "deleteBranch", "deleteRemoteBranch"} :
    ~Attempted(op)

\* C8: the branch name a successful run produces is ineligible under
\* shouldSkipBranch, for either tracker and every id returned; a later run
\* on the renamed branch is a skip: it creates no issue and renames nothing.
C8_RenamedBranchIsSkipped ==
  /\ IsSuccess(result) =>
       /\ shouldSkipBranch(result.data.updatedBranch, config.git.skipBranches)
       /\ shouldSkipBranch(result.data.updatedBranch, <<>>)
       /\ repoBranch = result.data.updatedBranch
  /\ prevSuccess =>
       /\ RunCreatesNothing
       /\ ~IsSuccess(result)
       /\ currentBranch # "" => (IsErr(gitResult) /\ gitResult.error.origin = "skip")
       /\ (Finished /\ currentBranch # "") => exitStatus = "normal"

C8_Witness ==
  /\ prevSuccess
  /\ Finished
  /\ currentBranch = "sc-10042-add-login-page"
  /\ exitStatus = "normal"

\* C9: in createStoryBranch, when creating and publishing the new branch
\* both succeeded the result is Ok with the new branch name, whether the
\* two deletions of the old branch succeed or fail.
C9_CleanupFailuresAreTolerated ==
  (Attempted("pushBranch") /\ failed \cap {"createBranch", "pushBranch"} = {} /\ pc # "push") =>
    /\ ~IsErr(branchResult)
    /\ pc \in {"deleteLocal", "deleteRemote", "handleSuccess", "done"}
    /\ pc \in {"handleSuccess", "done"} =>
         (branchResult = success(newBranchName) /\ result.data.updatedBranch = newBranchName)

C9_Witness ==
  /\ {"deleteBranch", "deleteRemoteBranch"} \subseteq failed
  /\ branchResult = success(newBranchName)
  /\ Finished

\* position of the first occurrence of op in calls, 0 when there is none
CallIndex(op) ==
  IF Attempted(op) THEN CHOOSE i \in 1..Len(calls) : calls[i] = op /\ \A j \in 1..(i - 1) : calls[j] # op
  ELSE 0

\* C10: in createStoryBranch a failed creation or a failed publication
\* gives Err; neither deletion is attempted unless creation and publication
\* both succeeded before; publication is attempted only after creation
\* succeeded.
C10_CreateAndPublishAreFatal ==
  /\ (failed \cap {"createBranch", "pushBranch"} # {}) =>
       /\ IsErr(branchResult)
       /\ result = branchResult
       /\ ~Attempted("deleteBranch")
       /\ ~Attempted("deleteRemoteBranch")
  /\ "createBranch" \in failed => ~Attempted("pushBranch")
  /\ Attempted("pushBranch") =>
       (0 < CallIndex("createBranch") /\ CallIndex("createBranch") < CallIndex("pushBranch"))
  /\ \A op \in {"deleteBranch", "deleteRemoteBranch"} :
       Attempted(op) =>
         /\ 0 < CallIndex("pushBranch")
         /\ CallIndex("pushBranch") < CallIndex(op)
         /\ failed \cap {"createBranch", "pushBranch"} = {}

C10_Witness ==
  /\ "pushBranch" \in failed
  /\ IsErr(branchResult)
  /\ Finished


\* C11: with the Jira tracker and a sprint id configured, when the issue
\* was created and the add-to-sprint request fails, createIssue still
\* returns Ok whose url is <baseUrl>/browse/<returned key>; the pipeline
\* goes on to the branch rewrite and, when the rewrite succeeds, returns Ok
\* with that url and is reported as a success.
C11_SprintFailureIsOnlyLogged ==
  "jira:addToSprint" \in failed =>
    /\ IsSuccess(issueResult)
    /\ issueResult.data.url = config.jira.baseUrl \o "/browse/" \o jiraIssue.key
    /\ issueResult.data.key = jiraIssue.key
    /\ stages = StageOrder
    /\ Attempted("createBranch")
    /\ (handled # None) => handled.origin = "rewrite"
    /\ (Finished /\ failed \cap {"createBranch", "pushBranch"} = {}) =>
         /\ IsSuccess(result)
         /\ result.data.createdStory.app_url = issueResult.data.url
         /\ handled = None
         /\ exitStatus = handlePipelineSuccess(result.data)

C11_Witness ==
  /\ "jira:addToSprint" \in failed
  /\ Finished
  /\ IsSuccess(result)
  /\ result.data.createdStory.app_url = "https://acme.atlassian.net/browse/PROJ-1234"

NetworkCalls ==
  {"analyze", "shortcut:createStory", "jira:createIssue", "jira:addToSprint"}

\* the errors that report missing configuration of the selected tracker:
\* those of validateConfig's tracker-specific fields and those of createIssue
MissingTrackerConfigMessages ==
  {"Shortcut configuration is missing", "JIRA configuration is missing",
   "shortcutToken cannot be empty", "jiraProjectKey cannot be empty",
   "Invalid config file: " \o TypeErrorTrim}

\* C12: when the configuration the selected tracker needs is missing, the
\* run fails with a configuration error, and at the point the error is
\* detected no network call (generation service or tracker) has been made.
C12_MissingConfigBeforeNetwork ==
  (handled # None /\ handled.message \in MissingTrackerConfigMessages) =>
    /\ \A op \in NetworkCalls : ~Attempted(op)
    /\ Finished => exitStatus = "failing"


\* C13: shouldSkipBranch answers "ineligible" exactly for the names that
\* start with "sc-" and a digit, or with upper-case letters, a hyphen and a
\* digit, or that are an element of the skip list; every skip-list entry is
\* ineligible whatever its shape, every other name is eligible.
C13_EligibilityCharacterised ==
  (probe.fn = "shouldSkipBranch" /\ probe.done) =>
    /\ probe.out \in BOOLEAN
    /\ probe.out <=> Ineligible(probe.arg.branch, probe.arg.skipBranches)
    /\ SeqContains(probe.arg.skipBranches, probe.arg.branch) => probe.out
    /\ (~SeqContains(probe.arg.skipBranches, probe.arg.branch)
          /\ ~CarriesIssuePrefix(probe.arg.branch)) => ~probe.out

C13_Witness ==
  /\ probe.fn = "shouldSkipBranch"
  /\ probe.done
  /\ probe.arg.branch = "proj-7-x"
  /\ probe.arg.skipBranches = <<"release/1.0", "sc-", "proj-7-x">>
  /\ probe.out
  /\ ~CarriesIssuePrefix(probe.arg.branch)

\* C14: when HEAD is detached (the current-branch query answers "HEAD") or
\* the working directory is no repository (the query fails),
\* analyzeGitChanges returns a repository error and no later stage runs.
C14_DetachedHeadIsRepositoryError ==
  (currentBranch = "HEAD" \/ "getCurrentBranch" \in failed) =>
    /\ IsErr(gitResult)
    /\ gitResult.error.origin = "repository"
    /\ stages = <<"extractor">>
    /\ \A op \in NetworkCalls \cup {"createBranch", "pushBranch"} : ~Attempted(op)

AllQueriesAnswered == \A k \in QueryNames : queries[k].st = "ok"

\* C15: every ChangeSet analyzeGitChanges returns as Ok has at least one
\* commit; when the branch is eligible and the commit log is empty the
\* result is the 'no commits' failure, the run exits normally and no
\* generation, tracker or branch operation is attempted.
C15_ChangeSetHasCommits ==
  /\ IsSuccess(gitResult) =>
       /\ Len(gitResult.data.commits) >= 1
       /\ Len(gitResult.data.commits) = Len(queries.log.val)
  /\ (AllQueriesAnswered /\ queries.log.val = <<>>) =>
       /\ IsErr(gitResult)
       /\ gitResult.error.message = "No commits found since base branch"
       /\ result = gitResult
       /\ stages = <<"extractor">>
       /\ \A op \in NetworkCalls \cup {"createBranch", "pushBranch"} : ~Attempted(op)
       /\ exitStatus # "failing"
       /\ Finished => exitStatus = "normal"

C15_Witness ==
  /\ AllQueriesAnswered
  /\ queries.log.val = <<>>
  /\ ~shouldSkipBranch(currentBranch, config.git.skipBranches)
  /\ Finished
  /\ exitStatus = "normal"

\* the WorkItemDraft invariant, confidence in hundredths
WorkItemDraftOk(draft) ==
  /\ Len(draft.title) <= 100
  /\ draft.storyType \in {"feature", "bug", "chore"}
  /\ draft.estimatedPoints \in {1, 2, 3, 5, 8}
  /\ draft.confidence \in 0..100

\* C16: every draft the synthesizer returns, from parseAIResponse or from
\* createFallbackAnalysis, has a title of at most 100 characters, a kind in
\* {feature, bug, chore}, a point estimate in {1,2,3,5,8} and a confidence
\* within [0,1].
C16_DraftInvariant ==
  IsSuccess(aiResult) => WorkItemDraftOk(aiResult.data)

\* the part of C16 that holds: the drafts of the primary path
C16_PrimaryDraftInvariant ==
  (IsSuccess(aiResult) /\ aiResult.data.source = "ai") => WorkItemDraftOk(aiResult.data)

\* the reference rules of the fallback draft, written from their statement
HasFixIgnoringCase(message) ==
  \E i \in 1..(Len(message) - 2) :
    /\ Char(message, i) \in {"f", "F"}
    /\ Char(message, i + 1) \in {"i", "I"}
    /\ Char(message, i + 2) \in {"x", "X"}

Contains(text, part) ==
  \E i \in 0..(Len(text) - Len(part)) : SubSeq(text, i + 1, i + Len(part)) = part

SomePathContains(changeSet, parts) ==
  \E i \in 1..Len(changeSet.fileChanges) :
    \E part \in parts : Contains(changeSet.fileChanges[i].path, part)

ReferenceKind(changeSet) ==
  IF \E i \in 1..Len(changeSet.commits) : HasFixIgnoringCase(changeSet.commits[i].message)
  THEN "bug" ELSE "feature"

ReferencePoints(changeSet) ==
  CASE Len(changeSet.fileChanges) \in 0..5 -> 1
    [] Len(changeSet.fileChanges) \in 6..10 -> 3
    [] OTHER -> 5

LabelSet(draft) == { draft.suggestedLabels[i] : i \in 1..Len(draft.suggestedLabels) }

\* C17: the fallback draft follows the reference rules: kind is bug iff a
\* commit message contains "fix" in any case, else feature; the point
\* estimate is 1 for 0..5 file changes, 3 for 6..10 and 5 above 10; the
\* labels hold "frontend", "backend", "testing" exactly when a path contains
\* .tsx/.vue/.jsx, api/controller, test/spec; confidence is 0.3.
C17_FallbackFollowsReferenceRules ==
  (probe.fn = "createFallbackAnalysis" /\ probe.done) =>
    /\ probe.out.storyType = ReferenceKind(probe.arg)
    /\ probe.out.estimatedPoints = ReferencePoints(probe.arg)
    /\ LabelSet(probe.out) \subseteq {"frontend", "backend", "testing"}
    /\ "frontend" \in LabelSet(probe.out)
         <=> SomePathContains(probe.arg, {".tsx", ".vue", ".jsx"})
    /\ "backend" \in LabelSet(probe.out) <=> SomePathContains(probe.arg, {"api", "controller"})
    /\ "testing" \in LabelSet(probe.out) <=> SomePathContains(probe.arg, {"test", "spec"})
    /\ probe.out.confidence = 30
    /\ probe.out.source = "fallback"

\* the scenario of the specification: "fix: null pointer", three files, one
\* of them *.spec.ts
C17_Witness ==
  /\ probe.fn = "createFallbackAnalysis"
  /\ probe.done
  /\ probe.arg.commits[1].message = "fix: null pointer"
  /\ Len(probe.arg.fileChanges) = 3
  /\ probe.arg.fileChanges[2].path = "src/null.spec.ts"
  /\ probe.out.storyType = "bug"
  /\ probe.out.estimatedPoints = 1
  /\ LabelSet(probe.out) = {"testing"}

\* C18: sanitizeBranchName is idempotent, and its value never starts or
\* ends with a hyphen, never holds two hyphens in a row and holds nothing
\* but lower-case letters, digits and hyphens.
C18_SanitizeIdempotentAndClean ==
  (probe.fn = "sanitizeBranchName" /\ probe.done) =>
    /\ sanitizeBranchName(probe.out) = probe.out
    /\ Len(probe.out) > 0 =>
         (Char(probe.out, 1) # "-" /\ Char(probe.out, Len(probe.out)) # "-")
    /\ \A i \in 1..(Len(probe.out) - 1) :
         ~(Char(probe.out, i) = "-" /\ Char(probe.out, i + 1) = "-")
    /\ \A i \in 1..Len(probe.out) :
         \E j \in 1..37 : Char("abcdefghijklmnopqrstuvwxyz0123456789-", j) = Char(probe.out, i)
    /\ Len(probe.out) <= Len(probe.arg)

C18_Witness ==
  /\ probe.fn = "sanitizeBranchName"
  /\ probe.done
  /\ probe.arg = "__WIP__fix--bug!"
  /\ probe.out = "wip-fix-bug"

\* C19: mapStoryTypeToJiraIssueType maps feature to Story, bug to Bug,
\* chore to Task, and every other string to Task.
C19_IssueTypeMappingTotal ==
  (probe.fn = "mapStoryTypeToJiraIssueType" /\ probe.done) =>
    probe.out = JsStr(CASE probe.arg = "feature" -> "Story"
                        [] probe.arg = "bug" -> "Bug"
                        [] OTHER -> "Task")

\* the part of C19 that holds: the strings that name no inherited property
C19_IssueTypeMappingOnPlainNames ==
  (probe.fn = "mapStoryTypeToJiraIssueType" /\ probe.done
     /\ probe.arg \notin DOMAIN ObjectPrototypeProperties) =>
    probe.out = JsStr(CASE probe.arg = "feature" -> "Story"
                        [] probe.arg = "bug" -> "Bug"
                        [] OTHER -> "Task")

\* C20: every stage of the pipeline that was invoked has completed with an
\* Ok or an Err by the time the run reaches a result handler, and so has
\* executeAnalysisPipeline: nothing arrives at runShortcutHook's catch as a
\* thrown exception or a rejected promise.
C20_EveryStageCompletesWithResult ==
  (pc \in {"handleError", "handleSuccess", "done"} /\ stages # <<>>) =>
    /\ \A i \in 1..4 :
         (\E j \in 1..Len(stages) : stages[j] = StageOrder[i]) =>
           (IsSuccess(StageResults[i]) \/ IsErr(StageResults[i]))
    /\ IsSuccess(result) \/ IsErr(result)
    /\ handled # None => handled.origin # "uncaught"

\* the part of C20 that holds: a repository, generation-service or tracker
\* call that fails (rejects, answers a non-success status, or answers a body
\* that is not JSON) leaves its stage with an Err, or with an Ok where the
\* failure is tolerated
C20_FailedCallsBecomeResults ==
  pc \in {"handleError", "handleSuccess", "done"} =>
    /\ ("getCurrentBranch" \in failed \/ (\E k \in QueryNames : QueryOp(k) \in failed))
         => (IsErr(gitResult) /\ result = gitResult)
    /\ "analyze" \in failed => IsSuccess(aiResult)
    /\ ("shortcut:createStory" \in failed \/ "jira:createIssue" \in failed)
         => (IsErr(issueResult) /\ result = issueResult)
    /\ "jira:addToSprint" \in failed => IsSuccess(issueResult)
    /\ ("createBranch" \in failed \/ "pushBranch" \in failed)
         => (IsErr(branchResult) /\ result = branchResult)

\* C21: every configuration validateConfig accepts has exactly one tracker
\* variant populated: the one its tracker field names, with every required
\* field non-empty, while the other variant is absent.
VariantComplete(variant, fields) ==
  /\ variant # Absent
  /\ \A f \in fields : variant[f] # undefined /\ Len(variant[f]) > 0

C21_ExactlyOneVariantPopulated ==
  config # None =>
    \/ /\ config.tracker = "shortcut"
       /\ VariantComplete(config.shortcut, {"token"})
       /\ config.jira = Absent
    \/ /\ config.tracker = "jira"
       /\ VariantComplete(config.jira, {"baseUrl", "email", "apiToken", "projectKey"})
       /\ config.shortcut = Absent

\* the part of C21 that holds: a populated variant is the one the tracker
\* field names and is complete, and the two variants are never both present
C21_PopulatedVariantIsNamedAndComplete ==
  config # None =>
    /\ config.shortcut = Absent \/ config.jira = Absent
    /\ config.shortcut # Absent =>
         (config.tracker = "shortcut" /\ VariantComplete(config.shortcut, {"token"}))
    /\ config.jira # Absent =>
         (config.tracker = "jira"
            /\ VariantComplete(config.jira, {"baseUrl", "email", "apiToken", "projectKey"}))

\* a string with a character that is not white space
NonBlank(v) ==
  /\ v # undefined
  /\ \E i \in 1..Len(v) : Char(v, i) \notin {" ", "\t", "\n"}

\* the validation the specification states for a generation-service response
ReferenceAccepts(response) ==
  /\ response.json
  /\ NonBlank(response.parsed.title)
  /\ NonBlank(response.parsed.description)
  /\ response.parsed.storyType \in {"feature", "bug", "chore"}
  /\ response.parsed.estimatedPoints \in {1, 2, 3, 5, 8}

\* C22: analyzeWithAI returns createFallbackAnalysis(changeSet) exactly when
\* the generation call errors, the response is not JSON or it fails
\* validation; when the response validates it returns the draft parsed from
\* the response.
C22_FallbackExactlyOnFailure ==
  (probe.fn = "analyzeWithAI" /\ probe.done) =>
    LET outcome == probe.arg.outcome
        fallback == createFallbackAnalysis(probe.arg.gitAnalysis)
    IN
    /\ probe.out.success
    /\ IF outcome.kind = "text" /\ ReferenceAccepts(outcome.response)
       THEN /\ probe.out.data = parseAIResponse(outcome.response).data
            /\ probe.out.data.source = "ai"
            /\ probe.out.data.description = outcome.response.parsed.description
            /\ probe.out.data.storyType = outcome.response.parsed.storyType
            /\ probe.out.data.estimatedPoints = outcome.response.parsed.estimatedPoints
       ELSE /\ probe.out.data = fallback
            /\ probe.out.data.source = "fallback"

C22_Witness ==
  /\ probe.fn = "analyzeWithAI"
  /\ probe.done
  /\ probe.arg.outcome.kind = "text"
  /\ probe.arg.outcome.response.json
  /\ probe.arg.outcome.response.parsed.estimatedPoints = 4
  /\ probe.out.data.source = "fallback"
  /\ probe.out.data.title = "Work on add-login-page"

\* a confidence clamped to [0, 1], in hundredths
ReferenceClamp(c) == IF c < 0 THEN 0 ELSE IF c > 100 THEN 100 ELSE c

\* the title cut to at most 100 characters
IsCutTitle(out, title) ==
  /\ Len(out) <= 100
  /\ Len(title) <= 100 => out = title
  /\ Len(title) > 100 => SubSeq(out, 1, 97) = SubSeq(title, 1, 97)

\* C23: parseAIResponse returns Ok exactly for a JSON object with non-empty
\* title and description, storyType in {feature, bug, chore} and
\* estimatedPoints in {1,2,3,5,8}; on Ok the title is the response's title
\* cut to at most 100 characters and the confidence is the response's
\* confidence clamped to [0,1] (0 yields 0, a value above 1 yields 1).
C23_ParseValidatesAndNormalises ==
  (probe.fn = "parseAIResponse" /\ probe.done) =>
    /\ probe.out.success <=> ReferenceAccepts(probe.arg)
    /\ probe.out.success =>
         /\ IsCutTitle(probe.out.data.title, probe.arg.parsed.title)
         /\ probe.arg.parsed.hasConfidence =>
              probe.out.data.confidence = ReferenceClamp(probe.arg.parsed.confidence)

\* the part of C23 that holds: validation, the cut title, and the clamp of
\* every confidence other than 0
C23_ParseValidatesAndClampsNonZero ==
  (probe.fn = "parseAIResponse" /\ probe.done) =>
    /\ probe.out.success <=> ReferenceAccepts(probe.arg)
    /\ probe.out.success =>
         /\ IsCutTitle(probe.out.data.title, probe.arg.parsed.title)
         /\ (probe.arg.parsed.hasConfidence /\ probe.arg.parsed.confidence # 0) =>
              probe.out.data.confidence = ReferenceClamp(probe.arg.parsed.confidence)
         /\ probe.out.data.confidence \in 0..100

QueriesIssued == \E k \in QueryNames : queries[k].st # "idle"

\* C24: the commit-log, diff and diff-summary queries are issued together
\* and only after the eligibility check passed; the extractor produces its
\* result only after all three have completed; the ChangeSet is determined
\* by the three answers whatever the order they arrive in; if any one of
\* them fails the result is Err.
C24_ExtractorWaitsForAllThree ==
  /\ QueriesIssued =>
       /\ \A k \in QueryNames : queries[k].st # "idle"
       /\ ~shouldSkipBranch(currentBranch, config.git.skipBranches)
  /\ (QueriesIssued /\ gitResult # None) =>
       \A k \in QueryNames : queries[k].st \in {"ok", "failed"}
  /\ IsSuccess(gitResult) =>
       gitResult = buildGitAnalysis(currentBranch, queries.log.val, queries.diff.val,
                                    queries.summary.val)
  /\ (\E k \in QueryNames : queries[k].st = "failed") => IsErr(gitResult)

\* the part of C24 that holds: an Ok result waits for all three answers
C24_OkWaitsForAllThree ==
  /\ QueriesIssued =>
       /\ \A k \in QueryNames : queries[k].st # "idle"
       /\ ~shouldSkipBranch(currentBranch, config.git.skipBranches)
  /\ (QueriesIssued /\ gitResult # None /\ "failed" \notin {queries[k].st : k \in QueryNames}) =>
       \A k \in QueryNames : queries[k].st = "ok"
  /\ IsSuccess(gitResult) =>
       gitResult = buildGitAnalysis(currentBranch, queries.log.val, queries.diff.val,
                                    queries.summary.val)
  /\ (\E k \in QueryNames : queries[k].st = "failed") => IsErr(gitResult)

\* how often an operation occurs among the calls of the run
RECURSIVE Occurrences(_, _, _)
Occurrences(seq, op, i) ==
  IF i > Len(seq) THEN 0
  ELSE (IF seq[i] = op THEN 1 ELSE 0) + Occurrences(seq, op, i + 1)

ExternalOperations ==
  {"analyze", "shortcut:createStory", "jira:createIssue", "jira:addToSprint",
   "createBranch", "pushBranch", "deleteBranch", "deleteRemoteBranch"}

\* C25: within one run the generation-service call, the tracker creation
\* call, the sprint-assignment call, the branch creation, the publish and
\* each deletion of the old branch are attempted at most once; an operation
\* that failed was attempted exactly once.
C25_NoOperationIsRetried ==
  /\ \A op \in ExternalOperations : Occurrences(calls, op, 1) <= 1
  /\ \A op \in failed : Occurrences(calls, op, 1) = 1

C25_Witness ==
  /\ Finished
  /\ {"analyze", "jira:addToSprint", "deleteBranch", "deleteRemoteBranch"} \subseteq failed
  /\ IsSuccess(result)

\* C26: createIssue contacts only the tracker the configuration names: with
\* tracker shortcut no Jira request is made, with tracker jira no Shortcut
\* request; the add-to-sprint request is made only with a sprint id
\* configured and only after the creation request succeeded, never after a
\* failed creation.
C26_OnlySelectedTrackerIsContacted ==
  config # None =>
    /\ config.tracker # "jira" =>
         (~Attempted("jira:createIssue") /\ ~Attempted("jira:addToSprint"))
    /\ config.tracker # "shortcut" => ~Attempted("shortcut:createStory")
    /\ Attempted("jira:addToSprint") =>
         /\ config.jira # Absent
         /\ config.jira.sprintId # 0
         /\ Attempted("jira:createIssue")
         /\ CallIndex("jira:createIssue") < CallIndex("jira:addToSprint")
         /\ "jira:createIssue" \notin failed
         /\ jiraIssue # None
    /\ "jira:createIssue" \in failed => ~Attempted("jira:addToSprint")

C26_Witness ==
  /\ Finished
  /\ config # None
  /\ config.tracker = "jira"
  /\ Attempted("jira:addToSprint")
  /\ ~Attempted("shortcut:createStory")
  /\ IsSuccess(issueResult)

\* the creation request of the run was answered with a non-success status
CreationRefused ==
  /\ IsErr(issueResult)
  /\ ("shortcut:createStory" \in failed \/ "jira:createIssue" \in failed)
  /\ startsWith(issueResult.error.message, "HTTP ")

CarriesStatusAndBody(message) ==
  \E f \in HttpFailures :
    /\ f.kind = "status"
    /\ message = "HTTP " \o NumToStr(f.status) \o ": " \o f.body

RewriterNotInvoked ==
  /\ ~SeqContains(stages, "rewriter")
  /\ branchResult = None
  /\ \A op \in {"createBranch", "pushBranch", "deleteBranch", "deleteRemoteBranch"} :
       ~Attempted(op)

\* C27: when the tracker answers the creation request with a non-success
\* status, createIssue returns an Err that carries the status and the body
\* text, the rewriter is not invoked (no branch is created, published or
\* deleted) and the process exits with a failing status.
C27_TrackerRefusalIsFatal ==
  CreationRefused =>
    /\ CarriesStatusAndBody(issueResult.error.message)
    /\ result = issueResult
    /\ RewriterNotInvoked
    /\ exitStatus # "normal"
    /\ Finished => exitStatus = "failing"

\* the part of C27 that holds: the Err carries status and body, nothing is
\* done to the branches, and the exit status is failing unless the body
\* text holds one of the two phrases handlePipelineError looks for
C27_TrackerRefusalStopsThePipeline ==
  CreationRefused =>
    /\ CarriesStatusAndBody(issueResult.error.message)
    /\ result = issueResult
    /\ RewriterNotInvoked
    /\ (Finished /\ ~includes(issueResult.error.message, "should be skipped")
                 /\ ~includes(issueResult.error.message, "No commits found"))
         => exitStatus = "failing"

\* C28: in createStoryBranch the two clean-up steps are independent: after
\* a successful create and publish the deletion of the old remote branch is
\* attempted even when the deletion of the old local branch failed; the
\* steps happen in the order create, publish, delete local, delete remote.
C28_CleanupStepsAreIndependent ==
  /\ "deleteBranch" \in failed => Attempted("deleteRemoteBranch")
  /\ (Attempted("deleteBranch") /\ pc # "deleteLocal") => Attempted("deleteRemoteBranch")
  /\ IsSuccess(branchResult) =>
       (Attempted("deleteBranch") /\ Attempted("deleteRemoteBranch"))
  /\ Attempted("deleteBranch") =>
       /\ 0 < CallIndex("createBranch")
       /\ CallIndex("createBranch") < CallIndex("pushBranch")
       /\ CallIndex("pushBranch") < CallIndex("deleteBranch")
  /\ Attempted("deleteRemoteBranch") =>
       /\ 0 < CallIndex("deleteBranch")
       /\ CallIndex("deleteBranch") < CallIndex("deleteRemoteBranch")

C28_Witness ==
  /\ "deleteBranch" \in failed
  /\ "deleteRemoteBranch" \notin failed
  /\ Attempted("deleteRemoteBranch")
  /\ IsSuccess(branchResult)
  /\ Finished

\* a Result is exactly one of Ok (success and data) or Err (no success, and
\* an error)
IsResult(r) ==
  \/ DOMAIN r = {"success", "data"} /\ r.success = TRUE
  \/ DOMAIN r = {"success", "error"} /\ r.success = FALSE

\* C29: for an Err input mapResult, flatMapResult and mapAsyncResult return
\* that same Err and do not invoke the function (a function that throws on
\* every payload changes nothing); for an Ok input mapResult returns
\* Ok(fn(data)) and flatMapResult returns fn(data) as it is; every Result
\* is exactly one of Ok or Err.
C29_CombinatorsPassErrorsThrough ==
  /\ (probe.fn \in {"mapResult", "flatMapResult"} /\ probe.done) =>
       LET input == probe.arg.result
           fn == probe.arg.fn
       IN
       /\ IsResult(input)
       /\ ~input.success => probe.out = input
       /\ (input.success /\ input.data \notin fn.throws) =>
            /\ probe.fn = "mapResult" => probe.out = success(fn.map[input.data])
            /\ probe.fn = "flatMapResult" => probe.out = fn.map[input.data]
       /\ ~IsThrown(probe.out) => IsResult(probe.out)
  /\ (probe.fn = "mapAsyncResult" /\ probe.done /\ ~probe.arg.result.rejected) =>
       LET input == probe.arg.result.value
           fn == probe.arg.fn
       IN
       /\ ~input.success => probe.out = input
       /\ (input.success /\ input.data \notin fn.throws) =>
            probe.out = success(fn.map[input.data])
       /\ ~IsThrown(probe.out) => IsResult(probe.out)

C29_Witness ==
  /\ probe.fn = "mapResult"
  /\ probe.done
  /\ ~probe.arg.result.success
  /\ probe.arg.fn.throws = Payloads
  /\ probe.out = failure(Err("first failure", "input"))

\* the sum of one column of the file deltas, taken from the last delta down
RECURSIVE SumOver(_, _, _)
SumOver(deltas, column, n) ==
  IF n = 0 THEN 0 ELSE deltas[n][column] + SumOver(deltas, column, n - 1)

\* C30: in every ChangeSet analyzeGitChanges returns the diff text has at
\* most 8000 characters and is a prefix of the full diff, totalAdditions and
\* totalDeletions are the sums of the additions and of the deletions over
\* all file deltas, and every commit hash has at most 7 characters.
C30_ChangeSetIsBounded ==
  (probe.fn = "analyzeGitChanges" /\ probe.done /\ probe.out.success) =>
    LET changeSet == probe.out.data
        full == probe.arg.diffResult
    IN
    /\ Len(changeSet.diffContent) <= 8000
    /\ Len(changeSet.diffContent) <= Len(full)
    /\ changeSet.diffContent = SubSeq(full, 1, Len(changeSet.diffContent))
    /\ Len(full) <= 8000 => changeSet.diffContent = full
    /\ Len(changeSet.fileChanges) = Len(probe.arg.diffSummary)
    /\ changeSet.totalAdditions =
         SumOver(changeSet.fileChanges, "additions", Len(changeSet.fileChanges))
    /\ changeSet.totalDeletions =
         SumOver(changeSet.fileChanges, "deletions", Len(changeSet.fileChanges))
    /\ \A i \in 1..Len(changeSet.commits) :
         /\ Len(changeSet.commits[i].hash) <= 7
         /\ startsWith(probe.arg.logResult[i].hash, changeSet.commits[i].hash)

C30_Witness ==
  /\ probe.fn = "analyzeGitChanges"
  /\ probe.done
  /\ probe.out.success
  /\ Len(probe.arg.diffResult) = 12000
  /\ Len(probe.out.data.diffContent) = 8000
  /\ probe.out.data.totalAdditions = 127
  /\ probe.out.data.totalDeletions = 52
  /\ Len(probe.arg.logResult[1].hash) = 40
====
